---- MODULE Spec2Model ----
(***************************************************************************)
(* The path-based website processor of Kzawery/Jive                        *)
(* (website-processor/roger_website_parser.py and path_based_processor.py):*)
(* a flat list of crawled pages is loaded, turned into nodes keyed by URL   *)
(* path, linked into a tree, scanned for common content blocks, rewritten   *)
(* with block references and exported.                                      *)
(*                                                                          *)
(* Python strings are sequences of one-character strings; a character that  *)
(* is not ASCII is written by its code point ("U+0142").  Positions and     *)
(* slices follow Python: 0-based, end-exclusive.  Python dicts keep         *)
(* insertion order and are sequences of [key, val] entries.                 *)
(***************************************************************************)
EXTENDS Integers, Sequences, FiniteSets, TLC

(***************************************************************************)
(* Python string primitives                                                 *)
(***************************************************************************)

\* Python's None, comparable with any string
None == <<"<None>">>

Lower ==
  {"a", "b", "c", "d", "e", "f", "g", "h", "i", "j", "k", "l", "m",
   "n", "o", "p", "q", "r", "s", "t", "u", "v", "w", "x", "y", "z"}

Upper ==
  {"A", "B", "C", "D", "E", "F", "G", "H", "I", "J", "K", "L", "M",
   "N", "O", "P", "Q", "R", "S", "T", "U", "V", "W", "X", "Y", "Z"}

Digit == {"0", "1", "2", "3", "4", "5", "6", "7", "8", "9"}

\* what str.strip() removes and the regex class \s matches
Whitespace == {" ", "\n", "\t"}

Min(S) == CHOOSE x \in S : \A y \in S : x <= y

Max(S) == CHOOSE x \in S : \A y \in S : x >= y

\* s[a:b] for 0 <= a, b
Slice(s, a, b) ==
  IF a >= b \/ a >= Len(s) THEN <<>>
  ELSE SubSeq(s, a + 1, IF b > Len(s) THEN Len(s) ELSE b)

\* s[a:]
SliceFrom(s, a) == Slice(s, a, Len(s))

\* s.startswith(p)
StartsWith(s, p) == Len(p) <= Len(s) /\ SubSeq(s, 1, Len(p)) = p

\* s.endswith(p)
EndsWith(s, p) ==
  Len(p) <= Len(s) /\ SubSeq(s, Len(s) - Len(p) + 1, Len(s)) = p

\* sub occurs in s at 0-based position pos
OccursAt(s, sub, pos) ==
  /\ pos >= 0
  /\ pos + Len(sub) <= Len(s)
  /\ \A k \in 1..Len(sub) : s[pos + k] = sub[k]

\* s.find(sub, start): the lowest position >= start, -1 when there is none
Find(s, sub, start) ==
  LET hits == {p \in start..(Len(s) - Len(sub)) : OccursAt(s, sub, p)}
  IN IF hits = {} THEN -1 ELSE Min(hits)

\* s.rfind(sub)
RFind(s, sub) ==
  LET hits == {p \in 0..(Len(s) - Len(sub)) : OccursAt(s, sub, p)}
  IN IF hits = {} THEN -1 ELSE Max(hits)

\* sub in s
Contains(s, sub) == Find(s, sub, 0) # -1

\* s.strip(chars): leading and trailing characters of the set removed
StripChars(s, chars) ==
  LET keep == {k \in 1..Len(s) : s[k] \notin chars}
  IN IF keep = {} THEN <<>> ELSE SubSeq(s, Min(keep), Max(keep))

\* s.strip()
Strip(s) == StripChars(s, Whitespace)

RECURSIVE Split(_, _)
\* s.split(sep) for a one-character separator: always at least one part
Split(s, sep) ==
  LET seps == {k \in 1..Len(s) : s[k] = sep}
  IN IF seps = {} THEN <<s>>
     ELSE <<SubSeq(s, 1, Min(seps) - 1)>>
            \o Split(SubSeq(s, Min(seps) + 1, Len(s)), sep)

RECURSIVE Join(_, _)
\* sep.join(parts)
Join(parts, sep) ==
  IF parts = <<>> THEN <<>>
  ELSE IF Len(parts) = 1 THEN parts[1]
  ELSE parts[1] \o sep \o Join(Tail(parts), sep)

(***************************************************************************)
(* Python dict: insertion-ordered entries                                   *)
(***************************************************************************)

\* key in d
DictHas(d, k) == \E i \in 1..Len(d) : d[i].key = k

\* d[key]
DictGet(d, k) == d[CHOOSE i \in 1..Len(d) : d[i].key = k].val

\* d[key] = val: an existing key keeps its position, a new key goes last
DictSet(d, k, v) ==
  IF DictHas(d, k)
  THEN [i \in 1..Len(d) |-> IF d[i].key = k THEN [key |-> k, val |-> v] ELSE d[i]]
  ELSE Append(d, [key |-> k, val |-> v])

(***************************************************************************)
(* urllib.parse.urlparse, for URLs without ';' parameters                   *)
(***************************************************************************)

SchemeChars == Lower \cup Upper \cup Digit \cup {"+", "-", "."}

\* the path is rest up to the first '?' or '#'
UrlPath(rest, cuts) ==
  IF cuts = {} THEN rest ELSE Slice(rest, 0, Min(cuts))

\* rest is what follows the host
UrlTail(scheme, netloc, rest) ==
  [scheme |-> scheme, netloc |-> netloc,
   path |-> UrlPath(rest, {p \in 0..(Len(rest) - 1) : rest[p + 1] \in {"?", "#"}})]

\* rest is what follows the scheme; delim is where the host ends
UrlHost(scheme, rest, hasNetloc, delim) ==
  UrlTail(scheme,
          IF hasNetloc THEN Slice(rest, 2, delim) ELSE <<>>,
          IF hasNetloc THEN SliceFrom(rest, delim) ELSE rest)

\* the host is what follows '//', up to the first of '/', '?' and '#'
UrlNetloc(scheme, rest, delims) ==
  UrlHost(scheme, rest, Slice(rest, 0, 2) = <<"/", "/">>,
          IF delims = {} THEN Len(rest) ELSE Min(delims))

UrlRest(scheme, rest) ==
  UrlNetloc(scheme, rest,
            {p \in 2..(Len(rest) - 1) : rest[p + 1] \in {"/", "?", "#"}})

\* the scheme is what precedes the first ':', when that is a scheme name
UrlScheme(url, hasScheme, colon) ==
  UrlRest(IF hasScheme THEN Slice(url, 0, colon) ELSE <<>>,
          IF hasScheme THEN SliceFrom(url, colon + 1) ELSE url)

\* colon is url.find(":")
UrlColon(url, colon) ==
  UrlScheme(url,
            /\ colon > 0
            /\ url[1] \in Lower \cup Upper
            /\ \A k \in 1..colon : url[k] \in SchemeChars,
            colon)

urlparse(url) == UrlColon(url, Find(url, <<":">>, 0))

(***************************************************************************)
(* WebsiteNode: the nodes live in the sequence `nodes`; a node reference    *)
(* is its index there, 0 is None.                                           *)
(***************************************************************************)

\* WebsiteNode.__init__
WebsiteNode(path, title, content, category, is_product) ==
  [path |-> path, title |-> title, content |-> content,
   category |-> category, is_product |-> is_product,
   children |-> <<>>, parent |-> 0, full_url |-> None,
   common_blocks_used |-> <<>>, processed_content |-> None]

\* WebsiteNode.add_child on the node store ns
add_child(ns, self, child_node) ==
  [ns EXCEPT ![self].children = Append(@, child_node),
             ![child_node].parent = self]

(***************************************************************************)
(* The processor's state                                                    *)
(***************************************************************************)

VARIABLES
  pc,              \* position of process(): the last stage that completed
  input_file,      \* what the input file holds
  pages,           \* self.pages
  domain,          \* self.domain
  master_node,     \* self.master_node
  nodes,           \* every WebsiteNode constructed so far
  nodes_by_path,   \* self.nodes_by_path
  nodes_by_url,    \* self.nodes_by_url
  common_blocks,   \* self.common_blocks
  use_ai,          \* the argument of _extract_common_blocks
  all_chunks,      \* _detect_repeated_content_blocks: its local all_chunks
  chunk_groups,    \* _detect_repeated_content_blocks: its local chunk_groups
  replaced,        \* _replace_common_blocks_in_content: per path, the spans applied
  output_file,     \* what _export_data wrote
  duplicate_paths  \* _build_tree_structure: its local duplicate_paths, reported when not empty

vars ==
  <<pc, input_file, pages, domain, master_node, nodes, nodes_by_path,
    nodes_by_url, common_blocks, use_ai, all_chunks, chunk_groups,
    replaced, output_file, duplicate_paths>>

\* PathBasedWebsiteProcessor.__init__
InitProcessor ==
  /\ pc = "init"
  /\ pages = <<>>
  /\ domain = None
  /\ master_node = 0
  /\ nodes = <<>>
  /\ nodes_by_path = <<>>
  /\ nodes_by_url = <<>>
  /\ common_blocks = <<>>
  /\ use_ai = FALSE
  /\ all_chunks = <<>>
  /\ chunk_groups = <<>>
  /\ replaced = <<>>
  /\ output_file = None
  /\ duplicate_paths = <<>>

(***************************************************************************)
(* _load_data                                                               *)
(***************************************************************************)

\* a variant that goes on after a failed load
LoadDataAnyway ==
  /\ pc = "init"
  /\ pages' = input_file.pages
  /\ pc' = "loaded"
  /\ UNCHANGED <<duplicate_paths, input_file, domain, master_node, nodes, nodes_by_path,
                 nodes_by_url, common_blocks, use_ai, all_chunks,
                 chunk_groups, replaced, output_file>>

\* process() up to the return of _load_data
LoadData ==
  /\ pc = "init"
  /\ IF input_file.kind = "json"
     THEN pages' = input_file.pages /\ pc' = "loaded"
     ELSE pages' = pages /\ pc' = "returned_false"
  /\ UNCHANGED <<duplicate_paths, input_file, domain, master_node, nodes, nodes_by_path,
                 nodes_by_url, common_blocks, use_ai, all_chunks,
                 chunk_groups, replaced, output_file>>

(***************************************************************************)
(* _create_nodes                                                            *)
(***************************************************************************)

https == <<"h", "t", "t", "p", "s", ":", "/", "/">>

Homepage == <<" ", "H", "o", "m", "e", "p", "a", "g", "e">>

root == <<"r", "o", "o", "t">>

\* f"https://{self.domain}/"
HomeUrl(dom) == https \o dom \o <<"/">>

\* the path a page's node is keyed by
SlashPath(path) ==
  IF ~StartsWith(path, <<"/">>) THEN <<"/">> \o path ELSE path

NodePath(url) == SlashPath(urlparse(url).path)

\* the test that skips a page as the homepage
IsHomepage(url) == urlparse(url).path \in {<<"/">>, <<>>}

\* the test that lets a homepage page update the master node
UpdatesMaster(url, dom) == url = HomeUrl(dom)

\* a variant whose title is the bare domain
MasterNodeBare(dom) ==
  [WebsiteNode(<<"/">>, dom, <<>>, root, FALSE)
     EXCEPT !.full_url = HomeUrl(dom)]

\* the master node: WebsiteNode(path="/", title=..., category="root")
MasterNode(dom) ==
  [WebsiteNode(<<"/">>, dom \o Homepage, <<>>, root, FALSE)
     EXCEPT !.full_url = HomeUrl(dom)]

\* page[key] for every key of the set does not raise KeyError
HasKeys(page, keys) == keys \subseteq DOMAIN page

\* page.get(key, default)
PageGet(page, key, default) == IF key \in DOMAIN page THEN page[key] ELSE default

\* the master node takes the homepage page's fields, one after the other, up
\* to the first one the page record lacks
UpdateMaster(st, page) ==
  [st EXCEPT
     !.nodes[1].title =
        IF HasKeys(page, {"title"}) THEN page.title ELSE @,
     !.nodes[1].content =
        IF HasKeys(page, {"title", "content"}) THEN page.content ELSE @,
     !.nodes[1].category =
        IF HasKeys(page, {"title", "content", "category"})
        THEN page.category ELSE @,
     !.nodes[1].is_product =
        IF HasKeys(page, {"title", "content", "category", "is_product"})
        THEN page.is_product ELSE @]

\* a variant that keeps an entry per page under a path already present
AddNodeAppend(st, page, path) ==
  [st EXCEPT !.nodes = Append(@, WebsiteNode(path, page.title, page.content,
                                             PageGet(page, "category", <<>>),
                                             PageGet(page, "is_product", FALSE))),
             !.by_path = Append(@, [key |-> path, val |-> Len(st.nodes) + 1]),
             !.by_url = DictSet(@, page.url, Len(st.nodes) + 1)]

\* a page that is not the homepage gets a node, stored under its path and
\* under its URL
AddNode(st, page, path) ==
  [st EXCEPT !.nodes = Append(@, WebsiteNode(path, page.title, page.content,
                                             PageGet(page, "category", <<>>),
                                             PageGet(page, "is_product", FALSE))),
             !.by_path = DictSet(@, path, Len(st.nodes) + 1),
             !.by_url = DictSet(@, page.url, Len(st.nodes) + 1)]

\* the keys the loop body reads with page[key]
RequiredKeys(page, dom) ==
  IF ~HasKeys(page, {"url"}) THEN {"url"}
  ELSE IF ~IsHomepage(page.url) THEN {"url", "title", "content"}
  ELSE IF UpdatesMaster(page.url, dom)
       THEN {"url", "title", "content", "category", "is_product"}
  ELSE {"url"}

\* the loop body raises KeyError at the first key the page record lacks; a
\* homepage record has updated the master node up to there
KeyError(st, page) ==
  [(IF HasKeys(page, {"url"}) /\ IsHomepage(page.url)
    THEN UpdateMaster(st, page) ELSE st) EXCEPT !.raised = TRUE]

RECURSIVE CreateLoop(_, _, _)
\* the loop over self.pages, from page k on; st holds the domain, the nodes,
\* both lookups and whether the loop has raised
CreateLoop(ps, k, st) ==
  IF k > Len(ps) THEN st
  ELSE IF ~HasKeys(ps[k], RequiredKeys(ps[k], st.domain))
       THEN KeyError(st, ps[k])
  ELSE IF IsHomepage(ps[k].url)
       THEN CreateLoop(ps, k + 1,
              IF UpdatesMaster(ps[k].url, st.domain)
              THEN UpdateMaster(st, ps[k]) ELSE st)
       ELSE CreateLoop(ps, k + 1, AddNode(st, ps[k], NodePath(ps[k].url)))

\* the state before the loop, dom being the host of the first page's URL
CreateMaster(dom) ==
  [domain |-> dom,
   nodes |-> <<MasterNode(dom)>>,
   by_path |-> DictSet(<<>>, <<"/">>, 1),
   by_url |-> DictSet(<<>>, HomeUrl(dom), 1),
   raised |-> FALSE]

\* the state _create_nodes leaves for a non-empty page list
CreateNodes(ps) == CreateLoop(ps, 1, CreateMaster(urlparse(ps[1].url).netloc))

\* process(): self._create_nodes(); self.pages[0]["url"] raises IndexError
\* on [] and KeyError on a first record without url
DoCreateNodes ==
  /\ pc = "loaded"
  /\ IF pages = <<>> \/ ~HasKeys(pages[1], {"url"})
     THEN /\ pc' = IF pages = <<>> THEN "raised_IndexError"
                   ELSE "raised_KeyError"
          /\ UNCHANGED <<domain, master_node, nodes, nodes_by_path,
                         nodes_by_url>>
     ELSE \E st \in {CreateNodes(pages)} :
             /\ pc' = IF st.raised THEN "raised_KeyError" ELSE "nodes_created"
             /\ domain' = st.domain
             /\ master_node' = 1
             /\ nodes' = st.nodes
             /\ nodes_by_path' = st.by_path
             /\ nodes_by_url' = st.by_url
  /\ UNCHANGED <<duplicate_paths, input_file, pages, common_blocks, use_ai, all_chunks,
                 chunk_groups, replaced, output_file>>

(***************************************************************************)
(* _build_tree_structure                                                    *)
(***************************************************************************)

\* path.strip("/").split("/")
PathParts(path) == Split(StripChars(path, {"/"}), "/")

\* the candidate parent path for index i
ParentPath(path_parts, i) ==
  IF i = 0 THEN <<"/">>
  ELSE <<"/">> \o Join(SubSeq(path_parts, 1, i), <<"/">>) \o <<"/">>

RECURSIVE FindParent(_, _, _)
\* for i in range(len(path_parts)-1, -1, -1): the first candidate that is a
\* key of by_path, None when the range is exhausted
FindParent(by_path, path_parts, i) ==
  IF i < 0 THEN None
  ELSE IF DictHas(by_path, ParentPath(path_parts, i))
       THEN ParentPath(path_parts, i)
       ELSE FindParent(by_path, path_parts, i - 1)

\* a variant whose search starts one level too high
ResolveParentFromTop(by_path, path_parts) ==
  FindParent(by_path, path_parts, Len(path_parts) - 2)

\* the parent path of a node, None when no candidate exists
ResolveParent(by_path, path_parts) ==
  FindParent(by_path, path_parts, Len(path_parts) - 1)

\* the node goes under the parent found, under the master node otherwise
Attach(by_path, master, ns, node, parent_path) ==
  IF parent_path # None
  THEN add_child(ns, DictGet(by_path, parent_path), node)
  ELSE add_child(ns, master, node)

RECURSIVE MainPassNested(_, _, _, _)
\* a variant that leaves the nodes whose parent is the root to the second loop
MainPassNested(by_path, master, k, ns) ==
  IF k > Len(by_path) THEN ns
  ELSE IF ResolveParent(by_path, PathParts(by_path[k].key)) = <<"/">>
       THEN MainPassNested(by_path, master, k + 1, ns)
  ELSE MainPassNested(by_path, master, k + 1,
         Attach(by_path, master, ns, by_path[k].val,
                ResolveParent(by_path, PathParts(by_path[k].key))))

RECURSIVE MainPass(_, _, _, _)
\* the first loop over self.nodes_by_path.items(), from entry k on
MainPass(by_path, master, k, ns) ==
  IF k > Len(by_path) THEN ns
  ELSE IF by_path[k].key = <<"/">> THEN MainPass(by_path, master, k + 1, ns)
  ELSE MainPass(by_path, master, k + 1,
         Attach(by_path, master, ns, by_path[k].val,
                ResolveParent(by_path, PathParts(by_path[k].key))))

\* a variant that does not look at the parent reference
IsOrphanAny(path, node) == path # <<"/">>

\* the test of the orphan loop
IsOrphan(path, node) == path # <<"/">> /\ node.parent = 0

RECURSIVE OrphanSweep(_, _, _, _)
\* the second loop: nodes still without a parent go under the master node
OrphanSweep(by_path, master, k, ns) ==
  IF k > Len(by_path) THEN ns
  ELSE IF IsOrphan(by_path[k].key, ns[by_path[k].val])
       THEN OrphanSweep(by_path, master, k + 1,
                        add_child(ns, master, by_path[k].val))
       ELSE OrphanSweep(by_path, master, k + 1, ns)

\* the nodes after _build_tree_structure
BuildTreeStructure(by_path, master, ns) ==
  OrphanSweep(by_path, master, 1, MainPass(by_path, master, 1, ns))

\* the check for duplicate paths: path_counts after the loop over the keys of
\* nodes_by_path, one count per key
path_counts(by_path) ==
  [k \in 1..Len(by_path) |->
     [key |-> by_path[k].key,
      val |-> Cardinality({j \in 1..Len(by_path) : by_path[j].key = by_path[k].key})]]

\* process(): self._build_tree_structure(); the second loop is the one of
\* path_based_processor.py, which finds no node without a parent
DoBuildTreeStructure ==
  /\ pc = "nodes_created"
  /\ pc' = "tree_built"
  /\ nodes' = BuildTreeStructure(nodes_by_path, master_node, nodes)
  /\ \E counted \in {SelectSeq(path_counts(nodes_by_path), LAMBDA e : e.val > 1)} :
       duplicate_paths' = [k \in 1..Len(counted) |-> counted[k].key]
  /\ UNCHANGED <<input_file, pages, domain, master_node, nodes_by_path,
                 nodes_by_url, common_blocks, use_ai, all_chunks,
                 chunk_groups, replaced, output_file>>

(***************************************************************************)
(* _extract_predefined_blocks                                               *)
(***************************************************************************)

\* 36 characters
header_pattern == 
  <<"P", "r", "z", "y", "k", "U+0142", "a", "d", "y", " ", "i", "n",
    "s", "t", "a", "l", "a", "c", "j", "i", " ", "p", "r", "o",
    "d", "u", "k", "t", "U+00F3", "w", " ", "R", "o", "g", "e", "r">>

\* 84 characters
footer_pattern == 
  <<"N", "e", "w", "s", "l", "e", "t", "t", "e", "r", " ", " ",
    " ", " ", " ", "B", "U+0105", "d", "U+017A", " ", "n", "a", " ", "b",
    "i", "e", "U+017C", "U+0105", "c", "o", " ", " ", " ", "N", "a", " ",
    "s", "k", "r", "U+00F3", "t", "y", " ", " ", " ", " ", " ", " ",
    " ", "W", "s", "p", "a", "r", "c", "i", "e", " ", " ", " ",
    " ", " ", " ", " ", "K", "o", "n", "t", "a", "k", "t", " ",
    " ", " ", "K", "o", "m", "u", "n", "i", "k", "a", "t", "y">>

links_pattern == 
  <<"P", "r", "z", "y", "d", "a", "t", "n", "e", " ", "l", "i",
    "n", "k", "i">>

Newsletter == <<"N", "e", "w", "s", "l", "e", "t", "t", "e", "r">>

site_header == <<"s", "i", "t", "e", "_", "h", "e", "a", "d", "e", "r">>

site_footer == <<"s", "i", "t", "e", "_", "f", "o", "o", "t", "e", "r">>

useful_links == <<"u", "s", "e", "f", "u", "l", "_", "l", "i", "n", "k", "s">>

header == <<"h", "e", "a", "d", "e", "r">>

footer == <<"f", "o", "o", "t", "e", "r">>

links_section == 
  <<"l", "i", "n", "k", "s", "_", "s", "e", "c", "t", "i", "o",
    "n">>

\* the slice end used for a header page that has no newline
HeaderEndDefault == 38

\* a registry entry without the auto_detected and confidence keys
PredefinedBlock(name, type, content, occurrences) ==
  [name |-> name, type |-> type, content |-> content,
   occurrences |-> occurrences, auto_detected |-> FALSE,
   confidence |-> <<0, 1>>]

\* [page["url"] for page in ps]
Urls(ps) == [i \in 1..Len(ps) |-> ps[i].url]

\* a variant that takes exactly half of the pages as enough
AtLeastHalf(sel, ps) == sel # <<>> /\ 2 * Len(sel) >= Len(ps)

\* len(header_pages) > len(self.pages) / 2
MoreThanHalf(sel, ps) == 2 * Len(sel) > Len(ps)

\* len(links_pages) > 2
EnoughLinksPages(sel) == Len(sel) > 2

\* a variant that never looks for the newline
HeaderEndFixed(sample_page) == HeaderEndDefault

\* where the header ends in the sample page
HeaderEnd(sample_page) ==
  IF Contains(sample_page, <<"\n">>)
  THEN Find(sample_page, <<"\n">>, 0)
  ELSE HeaderEndDefault

AddHeader(ps, cb, header_pages) ==
  IF MoreThanHalf(header_pages, ps)
  THEN DictSet(cb, <<"header">>,
         PredefinedBlock(site_header, header,
           Strip(Slice(header_pages[1].content, 0,
                       HeaderEnd(header_pages[1].content))),
           Urls(header_pages)))
  ELSE cb

ExtractHeader(ps, cb) ==
  AddHeader(ps, cb,
            SelectSeq(ps, LAMBDA page : StartsWith(page.content, header_pattern)))

AddFooter(ps, cb, footer_pages, footer_start) ==
  IF MoreThanHalf(footer_pages, ps) /\ footer_start # -1
  THEN DictSet(cb, <<"footer">>,
         PredefinedBlock(site_footer, footer,
           Strip(SliceFrom(footer_pages[1].content, footer_start)),
           Urls(footer_pages)))
  ELSE cb

\* footer_start is read only when there are enough footer pages
FooterPages(ps, cb, footer_pages) ==
  AddFooter(ps, cb, footer_pages,
            IF MoreThanHalf(footer_pages, ps)
            THEN RFind(footer_pages[1].content, Newsletter) ELSE -1)

ExtractFooter(ps, cb) ==
  FooterPages(ps, cb,
              SelectSeq(ps, LAMBDA page : EndsWith(page.content, footer_pattern)))

AddUsefulLinks(cb, links_pages, sample_page, links_start, links_end) ==
  IF links_start # -1 /\ links_end # -1
  THEN DictSet(cb, <<"useful_links">>,
         PredefinedBlock(useful_links, links_section,
           Strip(Slice(sample_page, links_start, links_end)),
           Urls(links_pages)))
  ELSE cb

LinksEnd(cb, links_pages, sample_page, links_start) ==
  AddUsefulLinks(cb, links_pages, sample_page, links_start,
                 IF Contains(sample_page, Newsletter)
                 THEN Find(sample_page, Newsletter, links_start)
                 ELSE -1)

LinksPages(cb, links_pages) ==
  IF EnoughLinksPages(links_pages)
  THEN LinksEnd(cb, links_pages, links_pages[1].content,
                Find(links_pages[1].content, links_pattern, 0))
  ELSE cb

ExtractUsefulLinks(ps, cb) ==
  LinksPages(cb, SelectSeq(ps, LAMBDA page : Contains(page.content, links_pattern)))

\* self.common_blocks after _extract_predefined_blocks
ExtractPredefinedBlocks(ps, cb) ==
  ExtractUsefulLinks(ps, ExtractFooter(ps, ExtractHeader(ps, cb)))

(***************************************************************************)
(* _detect_repeated_content_blocks                                          *)
(***************************************************************************)

\* a threshold one lower
MinOccurrencesPair == 1 + 1

MIN_OCCURRENCES == 3

\* SIMILARITY_THRESHOLD = 0.85, in hundredths
SIMILARITY_THRESHOLD == 85

MAX_CHUNKS == 10000

CHUNK_MIN_LENGTH == 60

RECURSIVE CharRun(_, _, _)
\* the length of the run of characters of a class that starts at 0-based
\* position p
CharRun(s, p, class) ==
  IF p < Len(s) /\ s[p + 1] \in class THEN 1 + CharRun(s, p + 1, class) ELSE 0

\* \s+ and \s{n,} at p
WsRun(s, p) == CharRun(s, p, Whitespace)

\* [A-Z] at p, then a run of [a-z] of this length, then \s
CapitalizedWord(s, p, run) ==
  /\ p < Len(s)
  /\ s[p + 1] \in Upper
  /\ run >= 1
  /\ p + 1 + run < Len(s)
  /\ s[p + 1 + run + 1] \in Whitespace

\* the lookahead (?=[A-Z][a-z]+\s) at 0-based position p
CapitalizedWordAt(s, p) == CapitalizedWord(s, p, CharRun(s, p + 1, Lower))

\* The end of the match of split_pattern that starts at 0-based position p,
\* -1 when none does; run is the length of the whitespace run at p and
\* newlines the positions of the newlines after p in that run.  The
\* alternatives are tried in their order:
\*   \n\s*\n | \s{3,} | (?<=[.!?])\s{2,} | \s+(?=[A-Z][a-z]+\s)
MatchEnd(s, p, run, newlines) ==
  IF run = 0 THEN -1
  ELSE IF s[p + 1] = "\n" /\ newlines # {} THEN Max(newlines) + 1
  ELSE IF run >= 3 THEN p + run
  ELSE IF p > 0 /\ s[p] \in {".", "!", "?"} /\ run >= 2 THEN p + run
  ELSE IF CapitalizedWordAt(s, p + run) THEN p + run
  ELSE -1

MatchRun(s, p, run) ==
  MatchEnd(s, p, run, {q \in (p + 1)..(p + run - 1) : s[q + 1] = "\n"})

\* no alternative matches at a character that is not whitespace
DelimiterEnd(s, p) ==
  IF s[p + 1] \in Whitespace THEN MatchRun(s, p, WsRun(s, p)) ELSE -1

RECURSIVE ReSplit(_, _)
\* the piece before the delimiter at start, then the pieces after it
SplitAt(s, from, start) ==
  <<Slice(s, from, start)>> \o ReSplit(s, DelimiterEnd(s, start))

\* where a delimiter begins at or after 0-based position p
Delimiters(s, p) == {q \in p..(Len(s) - 1) : DelimiterEnd(s, q) # -1}

FirstOf(starts) == IF starts = {} THEN -1 ELSE Min(starts)

\* where the first delimiter at or after p begins, -1 when there is none
NextDelimiter(s, p) == FirstOf(Delimiters(s, p))

\* start: where the next delimiter begins
SplitNext(s, from, start) ==
  IF start = -1 THEN <<SliceFrom(s, from)>> ELSE SplitAt(s, from, start)

\* re.split(split_pattern, s): the pieces from 0-based position `from` on
ReSplit(s, from) == SplitNext(s, from, NextDelimiter(s, from))

\* the chunk records of the chunks kept
ChunkRecords(url, kept) ==
  [k \in 1..Len(kept) |->
     [url |-> url, content |-> kept[k], length |-> Len(kept[k])]]

\* chunk.strip() for every chunk
StripAll(chunks) == [k \in 1..Len(chunks) |-> Strip(chunks[k])]

\* the test that drops only the empty chunks
TooShortEmptyOnly(chunk) == chunk = <<>>

\* the test that drops a stripped chunk
TooShort(chunk) == chunk = <<>> \/ Len(chunk) < CHUNK_MIN_LENGTH

\* the chunks one page contributes to all_chunks
PageChunks(page) ==
  ChunkRecords(page.url,
    SelectSeq(StripAll(IF page.content = <<>> THEN <<>>
                       ELSE ReSplit(page.content, 0)),
              LAMBDA chunk : ~TooShort(chunk)))

RECURSIVE SplitPages(_, _)
\* Step 1: all_chunks after the loop over the pages from page k on
SplitPages(ps, k) ==
  IF k > Len(ps) THEN <<>> ELSE PageChunks(ps[k]) \o SplitPages(ps, k + 1)

\* list.sort(key, reverse=True): descending by key, equal keys keep their order
SortDescending(s, keys) ==
  LET rank(i) == Cardinality({j \in 1..Len(s) : keys[j] > keys[i]})
                 + Cardinality({j \in 1..(i - 1) : keys[j] = keys[i]}) + 1
  IN [r \in 1..Len(s) |-> s[CHOOSE i \in 1..Len(s) : rank(i) = r]]

\* a variant that keeps the first chunks in page order
LimitChunksUnsorted(chunks, max_chunks) ==
  IF Len(chunks) > max_chunks THEN SubSeq(chunks, 1, max_chunks) ELSE chunks

\* the cap on the number of chunks that are compared; max_chunks is the
\* module's MAX_CHUNKS
LimitChunks(chunks, max_chunks) ==
  IF Len(chunks) > max_chunks
  THEN SubSeq(SortDescending(chunks, [i \in 1..Len(chunks) |-> chunks[i].length]),
              1, max_chunks)
  ELSE chunks

(***************************************************************************)
(* difflib.SequenceMatcher(None, a, b).ratio() for b shorter than 200       *)
(* characters (no element of b is dropped as popular)                       *)
(***************************************************************************)

\* the offsets at which the common run of a from i and b from j ends: at the
\* first pair of characters that differ, or at limit
RunEnds(a, i, b, j, limit) ==
  {d \in 0..limit : d = limit \/ a[i + d + 1] # b[j + d + 1]}

\* the length of the longest common run of a[i:ahi] and b[j:bhi] from i and j
CommonLen(a, i, ahi, b, j, bhi) ==
  Min(RunEnds(a, i, b, j, Min({ahi - i, bhi - j})))

\* among the runs of the longest size: earliest in a, then earliest in b
EarliestIn(best, i) == <<i, Min({r[2] : r \in {x \in best : x[1] = i}})>>

Earliest(best) == EarliestIn(best, Min({r[1] : r \in best}))

LongestOfSize(runs, size) == Earliest({r \in runs : r[3] = size}) \o <<size>>

LongestOf(runs) == LongestOfSize(runs, Max({r[3] : r \in runs}))

LongestIn(alo, blo, runs) ==
  IF runs = {} THEN <<alo, blo, 0>> ELSE LongestOf(runs)

\* the common runs <<i, j, size>> of a and b that cannot be extended: what
\* the matcher knows of a and b
Runs(a, b) ==
  UNION {{<<i, j, CommonLen(a, i, Len(a), b, j, Len(b))>> :
            j \in {k \in 0..(Len(b) - 1) :
                     /\ b[k + 1] = a[i + 1]
                     /\ i = 0 \/ k = 0 \/ a[i] # b[k]}} :
           i \in 0..(Len(a) - 1)}

\* the run r between its offsets lo and hi
Clip(r, lo, hi) == <<r[1] + lo, r[2] + lo, hi - lo>>

\* the common runs of a[alo:ahi] and b[blo:bhi] that cannot be extended to
\* the left: the parts of the runs that lie in both slices
RunsIn(runs, alo, ahi, blo, bhi) ==
  {x \in {Clip(r, Max({alo - r[1], blo - r[2], 0}),
                 Min({r[3], ahi - r[1], bhi - r[2]})) : r \in runs} : x[3] > 0}

\* find_longest_match: <<i, j, size>> with a[i:i+size] = b[j:j+size]
find_longest_match(runs, alo, ahi, blo, bhi) ==
  LongestIn(alo, blo, RunsIn(runs, alo, ahi, blo, bhi))

RECURSIVE MatchedChars(_, _, _, _, _)
\* m is the longest match; the matches left and right of it are added
MatchedAround(runs, alo, ahi, blo, bhi, m) ==
  IF m[3] = 0 THEN 0
  ELSE m[3]
       + (IF alo < m[1] /\ blo < m[2]
          THEN MatchedChars(runs, alo, m[1], blo, m[2]) ELSE 0)
       + (IF m[1] + m[3] < ahi /\ m[2] + m[3] < bhi
          THEN MatchedChars(runs, m[1] + m[3], ahi, m[2] + m[3], bhi) ELSE 0)

\* the sum of the sizes of get_matching_blocks() within a[alo:ahi], b[blo:bhi]
MatchedChars(runs, alo, ahi, blo, bhi) ==
  MatchedAround(runs, alo, ahi, blo, bhi,
                find_longest_match(runs, alo, ahi, blo, bhi))

\* ratio() >= SIMILARITY_THRESHOLD, ratio() being 2.0 * matches / length
Similar(a, b) ==
  IF Len(a) + Len(b) = 0 THEN TRUE
  ELSE 200 * MatchedChars(Runs(a, b), 0, Len(a), 0, Len(b))
         >= SIMILARITY_THRESHOLD * (Len(a) + Len(b))

(***************************************************************************)
(* _classify_content_block                                                  *)
(***************************************************************************)

\* str.lower() on the letters that occur in the crawled pages
LowerOf ==
  "A" :> "a" @@ "B" :> "b" @@ "C" :> "c" @@ "D" :> "d" @@ "E" :> "e" @@
  "F" :> "f" @@ "G" :> "g" @@ "H" :> "h" @@ "I" :> "i" @@ "J" :> "j" @@
  "K" :> "k" @@ "L" :> "l" @@ "M" :> "m" @@ "N" :> "n" @@ "O" :> "o" @@
  "P" :> "p" @@ "Q" :> "q" @@ "R" :> "r" @@ "S" :> "s" @@ "T" :> "t" @@
  "U" :> "u" @@ "V" :> "v" @@ "W" :> "w" @@ "X" :> "x" @@ "Y" :> "y" @@
  "Z" :> "z" @@ "U+0104" :> "U+0105" @@ "U+0106" :> "U+0107" @@ "U+0118" :> "U+0119" @@ "U+0141" :> "U+0142" @@
  "U+0143" :> "U+0144" @@ "U+00D3" :> "U+00F3" @@ "U+015A" :> "U+015B" @@ "U+0179" :> "U+017A" @@ "U+017B" :> "U+017C"

\* content.lower()
ToLower(s) ==
  [k \in 1..Len(s) |-> IF s[k] \in DOMAIN LowerOf THEN LowerOf[s[k]] ELSE s[k]]

\* the dict `patterns`, in its order
patterns ==
  <<
    [type |-> <<"n", "a", "v", "i", "g", "a", "t", "i", "o", "n">>,
     keywords |-> <<<<"r", "o", "z", "w", "i", "U+0105", "z", "a", "n", "i", "a">>,
                   <<"p", "r", "o", "d", "u", "k", "t", "y">>,
                   <<"m", "e", "n", "u">>,
                   <<"z", "a", "s", "t", "o", "s", "o", "w", "a", "n", "i", "a">>>>],
    [type |-> <<"p", "r", "o", "d", "u", "c", "t", "_", "l", "i", "s", "t">>,
     keywords |-> <<<<"r", "a", "c", "s">>,
                   <<"p", "r", "o", "d", "u", "k", "t", "y">>,
                   <<"p", "o", "w", "i", "U+0105", "z", "a", "n", "e", " ", "p", "r", "o", "d", "u", "k", "t", "y">>>>],
    [type |-> <<"c", "o", "n", "t", "a", "c", "t", "_", "i", "n", "f", "o">>,
     keywords |-> <<<<"k", "o", "n", "t", "a", "k", "t">>,
                   <<"s", "k", "o", "n", "t", "a", "k", "t", "u", "j">>,
                   <<"w", "s", "p", "a", "r", "c", "i", "e">>>>],
    [type |-> <<"l", "i", "n", "k", "s", "_", "s", "e", "c", "t", "i", "o", "n">>,
     keywords |-> <<<<"p", "r", "z", "y", "d", "a", "t", "n", "e", " ", "l", "i", "n", "k", "i">>,
                   <<"g", "d", "z", "i", "e", " ", "k", "u", "p", "i", "U+0107">>,
                   <<"p", "o", "b", "i", "e", "r", "z">>>>],
    [type |-> <<"f", "o", "r", "m", "_", "s", "e", "c", "t", "i", "o", "n">>,
     keywords |-> <<<<"f", "o", "r", "m", "u", "l", "a", "r", "z">>,
                   <<"r", "e", "j", "e", "s", "t", "r", "a", "c", "j", "a">>,
                   <<"l", "o", "g", "o", "w", "a", "n", "i", "e">>>>],
    [type |-> <<"i", "n", "t", "r", "o", "_", "s", "e", "c", "t", "i", "o", "n">>,
     keywords |-> <<<<"w", "p", "r", "o", "w", "a", "d", "z", "e", "n", "i", "e">>,
                   <<"o", " ", "p", "r", "o", "d", "u", "k", "c", "i", "e">>,
                   <<"c", "h", "a", "r", "a", "k", "t", "e", "r", "y", "s", "t", "y", "k", "a">>>>],
    [type |-> <<"c", "a", "s", "e", "_", "s", "t", "u", "d", "y">>,
     keywords |-> <<<<"p", "r", "z", "y", "p", "a", "d", "e", "k">>,
                   <<"r", "e", "a", "l", "i", "z", "a", "c", "j", "a">>,
                   <<"w", "d", "r", "o", "U+017C", "e", "n", "i", "e">>,
                   <<"c", "a", "s", "e", " ", "s", "t", "u", "d", "y">>>>],
    [type |-> <<"k", "e", "y", "_", "f", "e", "a", "t", "u", "r", "e", "s">>,
     keywords |-> <<<<"c", "h", "a", "r", "a", "k", "t", "e", "r", "y", "s", "t", "y", "k", "a">>,
                   <<"c", "e", "c", "h", "y">>,
                   <<"f", "u", "n", "k", "c", "j", "e">>,
                   <<"d", "o", "s", "t", "U+0119", "p", "n", "e">>>>],
    [type |-> <<"d", "o", "w", "n", "l", "o", "a", "d", "_", "s", "e", "c", "t", "i", "o", "n">>,
     keywords |-> <<<<"p", "o", "b", "i", "e", "r", "z">>,
                   <<"d", "o", "w", "n", "l", "o", "a", "d">>,
                   <<"p", "l", "i", "k", "i">>>>]>>

content_block == <<"c", "o", "n", "t", "e", "n", "t", "_", "b", "l", "o", "c", "k">>

\* the last type with a keyword in the text, content_block without one
FirstTypeLast(hits) == IF hits = {} THEN content_block ELSE patterns[Max(hits)].type

\* the first type with a keyword in the text, content_block without one
FirstType(hits) == IF hits = {} THEN content_block ELSE patterns[Min(hits)].type

ClassifyLower(content_lower) ==
  FirstType({t \in 1..Len(patterns) :
               \E k \in 1..Len(patterns[t].keywords) :
                 Contains(content_lower, patterns[t].keywords[k])})

_classify_content_block(content) == ClassifyLower(ToLower(content))

(***************************************************************************)
(* _detect_repeated_content_blocks, steps 2 and 3.  Chunk and group indices *)
(* are positions in the sequences, one more than Python's.                  *)
(***************************************************************************)

RECURSIVE FindSimilarAnyPage(_, _, _, _)
\* the inner loop without the test of the page a chunk comes from
FindSimilarAnyPage(chunks, i, j, acc) ==
  IF j > Len(chunks) THEN acc
  ELSE IF i = j \/ j \in acc.processed_indices
       THEN FindSimilarAnyPage(chunks, i, j + 1, acc)
  ELSE IF Similar(chunks[i].content, chunks[j].content)
       THEN FindSimilarAnyPage(chunks, i, j + 1,
              [similar_chunks |-> Append(acc.similar_chunks, j),
               urls_in_group |-> acc.urls_in_group \cup {chunks[j].url},
               processed_indices |-> acc.processed_indices \cup {j}])
  ELSE FindSimilarAnyPage(chunks, i, j + 1, acc)

RECURSIVE FindSimilar(_, _, _, _)
\* the inner loop over chunk2 from index j on, for the seed i;
\* acc holds similar_chunks, urls_in_group and processed_indices
FindSimilar(chunks, i, j, acc) ==
  IF j > Len(chunks) THEN acc
  ELSE IF i = j \/ j \in acc.processed_indices
       THEN FindSimilar(chunks, i, j + 1, acc)
  ELSE IF chunks[j].url \in acc.urls_in_group
       THEN FindSimilar(chunks, i, j + 1, acc)
  ELSE IF Similar(chunks[i].content, chunks[j].content)
       THEN FindSimilar(chunks, i, j + 1,
              [similar_chunks |-> Append(acc.similar_chunks, j),
               urls_in_group |-> acc.urls_in_group \cup {chunks[j].url},
               processed_indices |-> acc.processed_indices \cup {j}])
  ELSE FindSimilar(chunks, i, j + 1, acc)

\* the test that makes the seed's group a chunk group
IsRepeated(similar_chunks) == Len(similar_chunks) >= MIN_OCCURRENCES - 1

\* the seed's group is kept and only the seed is marked as processed
KeepGroupSeedOnly(chunks, i, st, found) ==
  IF IsRepeated(found.similar_chunks)
  THEN [chunk_groups |-> Append(st.chunk_groups,
          [representative |-> chunks[i],
           similar_indices |-> found.similar_chunks,
           occurrences |-> Len(found.similar_chunks) + 1]),
        processed_indices |-> st.processed_indices \cup {i}]
  ELSE [chunk_groups |-> st.chunk_groups,
        processed_indices |-> st.processed_indices]

\* a variant that marks the chunks found as processed only when the group is
\* kept
KeepGroupOrRelease(chunks, i, st, found) ==
  IF IsRepeated(found.similar_chunks)
  THEN [chunk_groups |-> Append(st.chunk_groups,
          [representative |-> chunks[i],
           similar_indices |-> found.similar_chunks,
           occurrences |-> Len(found.similar_chunks) + 1]),
        processed_indices |-> found.processed_indices \cup {i}]
  ELSE [chunk_groups |-> st.chunk_groups,
        processed_indices |-> st.processed_indices]

\* the seed's group is kept when it is large enough; the chunks found are
\* processed either way
KeepGroup(chunks, i, st, found) ==
  IF IsRepeated(found.similar_chunks)
  THEN [chunk_groups |-> Append(st.chunk_groups,
          [representative |-> chunks[i],
           similar_indices |-> found.similar_chunks,
           occurrences |-> Len(found.similar_chunks) + 1]),
        processed_indices |-> found.processed_indices \cup {i}]
  ELSE [chunk_groups |-> st.chunk_groups,
        processed_indices |-> found.processed_indices]

RECURSIVE GroupChunks(_, _, _)
\* the outer loop over chunk1 from index i on;
\* st holds chunk_groups and processed_indices
GroupChunks(chunks, i, st) ==
  IF i > Len(chunks) THEN st
  ELSE IF i \in st.processed_indices THEN GroupChunks(chunks, i + 1, st)
  ELSE GroupChunks(chunks, i + 1,
         KeepGroup(chunks, i, st,
           FindSimilar(chunks, i, 1,
             [similar_chunks |-> <<>>,
              urls_in_group |-> {chunks[i].url},
              processed_indices |-> st.processed_indices])))

RECURSIVE Decimal(_)
\* str(n) for n >= 0
Decimal(n) ==
  LET digits == <<"0", "1", "2", "3", "4", "5", "6", "7", "8", "9">>
  IN IF n < 10 THEN <<digits[n + 1]>>
     ELSE Decimal(n \div 10) \o <<digits[(n % 10) + 1]>>

\* the test that skips a group in step 3
TooSmall(group) == group.occurrences < MIN_OCCURRENCES

\* the registry entry of a group with the type alone as its name
TypedBlockUnnumbered(chunks, group, i, ps, block_type) ==
  [name |-> block_type,
   type |-> block_type,
   content |-> group.representative.content,
   occurrences |-> <<group.representative.url>>
                     \o [k \in 1..Len(group.similar_indices) |->
                           chunks[group.similar_indices[k]].url],
   auto_detected |-> TRUE,
   confidence |-> <<group.occurrences, Len(ps)>>]

\* the registry entry of group number i (Python's i + 1)
TypedBlock(chunks, group, i, ps, block_type) ==
  [name |-> block_type \o <<"_">> \o Decimal(i),
   type |-> block_type,
   content |-> group.representative.content,
   occurrences |-> <<group.representative.url>>
                     \o [k \in 1..Len(group.similar_indices) |->
                           chunks[group.similar_indices[k]].url],
   auto_detected |-> TRUE,
   confidence |-> <<group.occurrences, Len(ps)>>]

AutoBlock(chunks, group, i, ps) ==
  TypedBlock(chunks, group, i, ps,
             _classify_content_block(group.representative.content))

RECURSIVE AddBlocks(_, _, _, _, _)
\* step 3: the loop over chunk_groups from group i on
AddBlocks(chunks, groups, i, ps, cb) ==
  IF i > Len(groups) THEN cb
  ELSE IF TooSmall(groups[i]) THEN AddBlocks(chunks, groups, i + 1, ps, cb)
  ELSE AddBlocks(chunks, groups, i + 1, ps,
         DictSet(cb, <<"auto_block_", i>>, AutoBlock(chunks, groups[i], i, ps)))

\* all_chunks as step 2 sees it
AllChunks(ps) == LimitChunks(SplitPages(ps, 1), MAX_CHUNKS)

\* total_comparisons is 0 for a single chunk and the progress report of the
\* first comparison divides by it: ZeroDivisionError
DivisionByZero(chunks) == (Len(chunks) * (Len(chunks) - 1)) \div 2 = 0 /\ chunks # <<>>

\* chunk_groups after step 2
ChunkGroups(chunks) ==
  GroupChunks(chunks, 1, [chunk_groups |-> <<>>, processed_indices |-> {}]).chunk_groups

(***************************************************************************)
(* _extract_common_blocks                                                   *)
(***************************************************************************)

\* page["content"] raises KeyError in the first statement of
\* _extract_predefined_blocks
ContentMissing(ps) == \E k \in 1..Len(ps) : ~HasKeys(ps[k], {"content"})

\* process(): self._extract_common_blocks(); the detection of repeated
\* blocks runs when the argument use_ai is set
DoExtractCommonBlocks ==
  /\ pc = "tree_built"
  /\ IF ContentMissing(pages)
     THEN /\ pc' = "raised_KeyError_in_blocks"
          /\ UNCHANGED <<use_ai, all_chunks, chunk_groups, common_blocks>>
     ELSE \E ai \in BOOLEAN :
       \E chunks \in {IF ai THEN AllChunks(pages) ELSE <<>>} :
         \E groups \in {IF DivisionByZero(chunks) THEN <<>> ELSE ChunkGroups(chunks)} :
           /\ pc' = IF DivisionByZero(chunks) THEN "raised_ZeroDivisionError"
                    ELSE "blocks_extracted"
           /\ use_ai' = ai
           /\ all_chunks' = chunks
           /\ chunk_groups' = groups
           /\ common_blocks' =
                AddBlocks(chunks, groups, 1, pages,
                          ExtractPredefinedBlocks(pages, common_blocks))
  /\ UNCHANGED <<duplicate_paths, input_file, pages, domain, master_node, nodes, nodes_by_path,
                 nodes_by_url, replaced, output_file>>

(***************************************************************************)
(* _replace_common_blocks_in_content                                        *)
(***************************************************************************)

\* blocks_to_replace before the sort: one entry per registry entry
BlocksToReplace(cb) ==
  [k \in 1..Len(cb) |->
     [id |-> cb[k].key, name |-> cb[k].val.name, content |-> cb[k].val.content,
      occurrences |-> cb[k].val.occurrences, is_auto |-> cb[k].val.auto_detected]]

\* blocks_to_replace.sort(key=lambda x: len(x["content"]), reverse=True)
SortBlocks(blocks) ==
  SortDescending(blocks, [k \in 1..Len(blocks) |-> Len(blocks[k].content)])

\* the test that skips a block for a node
SkipBlock(node_url, block) ==
  /\ node_url # None /\ node_url # <<>>
  /\ \A k \in 1..Len(block.occurrences) : block.occurrences[k] # node_url
  /\ ~block.is_auto

\* f"[{block_name}]"
Token(block_name) == <<"[">> \o block_name \o <<"]">>

RECURSIVE FindOccurrences(_, _, _)
\* a variant that records the hits last first
RecordOccurrenceLastFirst(content, block, pos) ==
  IF pos = -1 THEN <<>>
  ELSE FindOccurrences(content, block, pos + Len(block.content))
         \o <<[start |-> pos, end |-> pos + Len(block.content),
               replacement |-> Token(block.name), block_id |-> block.id]>>

\* pos is content.find(block_content, start_pos)
RecordOccurrence(content, block, pos) ==
  IF pos = -1 THEN <<>>
  ELSE <<[start |-> pos, end |-> pos + Len(block.content),
          replacement |-> Token(block.name), block_id |-> block.id]>>
         \o FindOccurrences(content, block, pos + Len(block.content))

\* the while loop: the replacements recorded for one block from start_pos on
FindOccurrences(content, block, start_pos) ==
  RecordOccurrence(content, block, Find(content, block.content, start_pos))

RECURSIVE CollectReplacements(_, _, _, _)
\* the loop over blocks_to_replace from block k on
CollectReplacements(content, node_url, blocks, k) ==
  IF k > Len(blocks) THEN <<>>
  ELSE (IF SkipBlock(node_url, blocks[k]) THEN <<>>
        ELSE FindOccurrences(content, blocks[k], 0))
       \o CollectReplacements(content, node_url, blocks, k + 1)

\* replacements.sort(key=lambda x: x["start"], reverse=True)
SortReplacements(replacements) ==
  SortDescending(replacements,
                 [k \in 1..Len(replacements) |-> replacements[k].start])

\* set(range(r["start"], r["end"]))
Positions(r) == r.start..(r.end - 1)

RECURSIVE RemoveLoop(_, _, _, _)
\* the loop of _remove_overlapping_replacements from replacement k on
RemoveLoop(replacements, k, covered_positions, final_replacements) ==
  IF k > Len(replacements) THEN final_replacements
  ELSE IF Positions(replacements[k]) \cap covered_positions = {}
       THEN RemoveLoop(replacements, k + 1,
                       covered_positions \cup Positions(replacements[k]),
                       Append(final_replacements, replacements[k]))
       ELSE RemoveLoop(replacements, k + 1, covered_positions, final_replacements)

\* a variant that keeps every replacement
KeepAllReplacements(replacements) == replacements

_remove_overlapping_replacements(replacements) ==
  IF replacements = <<>> THEN <<>> ELSE RemoveLoop(replacements, 1, {}, <<>>)

\* the name stored in common_blocks_used for a replacement
UsedName(blocks, replacement) ==
  blocks[Min({i \in 1..Len(blocks) : blocks[i].id = replacement.block_id})].name

\* a variant that writes the block name without the brackets
ApplyBareName(blocks, r, st) ==
  [common_blocks_used |->
     DictSet(st.common_blocks_used, r.block_id, UsedName(blocks, r)),
   content |-> Slice(st.content, 0, r.start) \o UsedName(blocks, r)
                 \o SliceFrom(st.content, r.end)]

\* one replacement: the block is marked as used and the span is replaced
Apply(blocks, r, st) ==
  [common_blocks_used |->
     DictSet(st.common_blocks_used, r.block_id, UsedName(blocks, r)),
   content |-> Slice(st.content, 0, r.start) \o r.replacement
                 \o SliceFrom(st.content, r.end)]

RECURSIVE ApplyReplacements(_, _, _, _)
\* the loop over non_overlapping from replacement k on; st holds the content
\* being rewritten and the node's common_blocks_used
ApplyReplacements(blocks, non_overlapping, k, st) ==
  IF k > Len(non_overlapping) THEN st
  ELSE ApplyReplacements(blocks, non_overlapping, k + 1,
                         Apply(blocks, non_overlapping[k], st))

\* the spans the rewriter applies to a node's content
NonOverlapping(content, node_url, blocks) ==
  _remove_overlapping_replacements(
    SortReplacements(CollectReplacements(content, node_url, blocks, 1)))

\* a variant that overwrites the node's content with the rewritten text
StoreInContent(st, path, node, non_overlapping, done) ==
  [nodes |-> [st.nodes EXCEPT
                ![node].common_blocks_used = done.common_blocks_used,
                ![node].processed_content = done.content,
                ![node].content = done.content],
   replaced |-> DictSet(st.replaced, path, non_overlapping)]

\* the node gets its processed content and the blocks used
StoreProcessed(st, path, node, non_overlapping, done) ==
  [nodes |-> [st.nodes EXCEPT
                ![node].common_blocks_used = done.common_blocks_used,
                ![node].processed_content = done.content],
   replaced |-> DictSet(st.replaced, path, non_overlapping)]

\* a variant that rewrites the text of an earlier run when there is one
RewriteProcessed(st, blocks, path, node, non_overlapping) ==
  StoreProcessed(st, path, node, non_overlapping,
    ApplyReplacements(blocks, non_overlapping, 1,
      [common_blocks_used |-> <<>>,
       content |-> IF st.nodes[node].processed_content = None
                   THEN st.nodes[node].content
                   ELSE st.nodes[node].processed_content]))

\* the body of the loop for a node with content
Rewrite(st, blocks, path, node, non_overlapping) ==
  StoreProcessed(st, path, node, non_overlapping,
    ApplyReplacements(blocks, non_overlapping, 1,
      [common_blocks_used |-> <<>>, content |-> st.nodes[node].content]))

RECURSIVE ReplaceLoop(_, _, _, _)
\* the loop over self.nodes_by_path.items() from entry k on; st holds the
\* nodes and, per path, the spans applied
ReplaceLoop(by_path, blocks, k, st) ==
  IF k > Len(by_path) THEN st
  ELSE IF st.nodes[by_path[k].val].content = <<>>
       THEN ReplaceLoop(by_path, blocks, k + 1, st)
  ELSE ReplaceLoop(by_path, blocks, k + 1,
         Rewrite(st, blocks, by_path[k].key, by_path[k].val,
           NonOverlapping(st.nodes[by_path[k].val].content,
                          st.nodes[by_path[k].val].full_url, blocks)))

\* process(): self._replace_common_blocks_in_content()
DoReplaceCommonBlocks ==
  /\ pc = "blocks_extracted"
  /\ pc' = "blocks_replaced"
  /\ \E st \in {ReplaceLoop(nodes_by_path,
                            SortBlocks(BlocksToReplace(common_blocks)),
                            1, [nodes |-> nodes, replaced |-> <<>>])} :
       nodes' = st.nodes /\ replaced' = st.replaced
  /\ UNCHANGED <<duplicate_paths, input_file, pages, domain, master_node, nodes_by_path,
                 nodes_by_url, common_blocks, use_ai, all_chunks, chunk_groups,
                 output_file>>

(***************************************************************************)
(* _export_data                                                             *)
(***************************************************************************)

RECURSIVE _node_to_dict(_, _)
\* a key the code leaves out of the dict is None here
_node_to_dict(ns, node) ==
  [path |-> ns[node].path,
   title |-> ns[node].title,
   category |-> ns[node].category,
   is_product |-> ns[node].is_product,
   url |-> ns[node].full_url,
   content |-> IF ns[node].processed_content # None /\ ns[node].processed_content # <<>>
               THEN ns[node].processed_content
               ELSE IF ns[node].content # <<>> THEN ns[node].content ELSE None,
   common_blocks |-> IF ns[node].common_blocks_used # <<>>
                     THEN ns[node].common_blocks_used ELSE None,
   children |-> [k \in 1..Len(ns[node].children) |->
                   _node_to_dict(ns, ns[node].children[k])]]

\* process(): self._export_data(); return True
DoExportData ==
  /\ pc = "blocks_replaced"
  /\ pc' = "returned_true"
  /\ output_file' =
       [website |-> [master_node |-> _node_to_dict(nodes, master_node),
                     domain |-> domain,
                     pages |-> Len(pages),
                     nodes |-> Len(nodes_by_path),
                     common_blocks |-> Len(common_blocks)],
        common_blocks |-> common_blocks]
  /\ UNCHANGED <<duplicate_paths, input_file, pages, domain, master_node, nodes, nodes_by_path,
                 nodes_by_url, common_blocks, use_ai, all_chunks, chunk_groups,
                 replaced>>

\* process()
Next ==
  \/ LoadData
  \/ DoCreateNodes
  \/ DoBuildTreeStructure
  \/ DoExtractCommonBlocks
  \/ DoReplaceCommonBlocks
  \/ DoExportData

(***************************************************************************)
(* WebsiteKnowledgeBase (website_knowledgebase.py) on the exported file.    *)
(* A key that _node_to_dict leaves out is a field with the value None.      *)
(***************************************************************************)

RECURSIVE _build_path_map(_, _)
RECURSIVE PathMapChildren(_, _, _)
\* the loop over the children from child k on
PathMapChildren(by_path, children, k) ==
  IF k > Len(children) THEN by_path
  ELSE PathMapChildren(_build_path_map(by_path, children[k]), children, k + 1)

\* self.nodes_by_path after _build_path_map(node)
_build_path_map(by_path, node) ==
  PathMapChildren(DictSet(by_path, node.path, node), node.children, 1)

RECURSIVE StrReplace(_, _, _)
\* s.replace(old, new) for a non-empty old
StrReplace(s, old, new) ==
  IF ~Contains(s, old) THEN s
  ELSE Slice(s, 0, Find(s, old, 0)) \o new
         \o StrReplace(SliceFrom(s, Find(s, old, 0) + Len(old)), old, new)

RECURSIVE ExpandBlocks(_, _, _, _)
\* the loop over node["common_blocks"].items() from entry k on
ExpandBlocks(blocks, used, k, content) ==
  IF k > Len(used) THEN content
  ELSE ExpandBlocks(blocks, used, k + 1,
         IF DictHas(blocks, used[k].key)
         THEN StrReplace(content, Token(used[k].val),
                         DictGet(blocks, used[k].key).content)
         ELSE content)

\* the exported node has no key "processed_content": the rewritten text is
\* exported under "content"
_expand_common_blocks(blocks, node) ==
  IF "processed_content" \notin DOMAIN node
  THEN IF node.content = None THEN <<>> ELSE node.content
  ELSE ExpandBlocks(blocks,
                    IF node.common_blocks = None THEN <<>> ELSE node.common_blocks,
                    1, node.processed_content)

\* WebsiteKnowledgeBase(structure_file).get_node_content(path), data being
\* what the structure file holds; NodeContent is the dict it returns
NodeContent(blocks, path, node) ==
  [path |-> path,
   title |-> node.title,
   content |-> _expand_common_blocks(blocks, node),
   category |-> node.category,
   is_product |-> node.is_product,
   children |-> [k \in 1..Len(node.children) |->
                   [path |-> node.children[k].path,
                    title |-> node.children[k].title]]]

get_node_content(data, path) ==
  IF DictHas(_build_path_map(<<>>, data.website.master_node), path)
  THEN NodeContent(data.common_blocks, path,
         DictGet(_build_path_map(<<>>, data.website.master_node), path))
  ELSE None

(***************************************************************************)
(* Inputs                                                                   *)
(***************************************************************************)

\* the longest page list an input file holds
MaxPages == 3

\* the page lists over a pool of page records, the empty list included
PageLists(pool) == UNION {[1..n -> pool] : n \in 0..MaxPages}

\* what the input file can hold: nothing (no file), text that is not JSON,
\* or a JSON list of page records
InputFiles(lists) ==
  {[kind |-> "missing", pages |-> <<>>], [kind |-> "invalid", pages |-> <<>>]}
    \cup {[kind |-> "json", pages |-> ps] : ps \in lists}

\* Page records for the tree builder: two homepage records, a homepage URL
\* with an empty path, nested paths with and without a trailing slash, two
\* URLs with the same path, and a URL without scheme and host.
TreePages ==
  {[url |-> <<"h", "t", "t", "p", "s", ":", "/", "/", "d", "/">>,
     title |-> <<"T", "1">>, content |-> <<"x">>,
     category |-> <<"p", "a", "g", "e">>, is_product |-> FALSE],
   [url |-> <<"h", "t", "t", "p", "s", ":", "/", "/", "d", "/">>,
     title |-> <<"T", "2">>, content |-> <<"y">>,
     category |-> <<"p", "a", "g", "e">>, is_product |-> TRUE],
   [url |-> <<"h", "t", "t", "p", "s", ":", "/", "/", "d">>,
     title |-> <<"T", "3">>, content |-> <<"z">>,
     category |-> <<"p", "a", "g", "e">>, is_product |-> TRUE],
   [url |-> <<"h", "t", "t", "p", "s", ":", "/", "/", "d", "/", "a", "/">>,
     title |-> <<"A">>, content |-> <<"a">>,
     category |-> <<"p", "a", "g", "e">>, is_product |-> FALSE],
   [url |-> <<"h", "t", "t", "p", "s", ":", "/", "/", "d", "/", "a", "/", "b", "/">>,
     title |-> <<"A", "B">>, content |-> <<"b">>,
     category |-> <<"p", "a", "g", "e">>, is_product |-> FALSE],
   [url |-> <<"h", "t", "t", "p", "s", ":", "/", "/", "d", "/", "a", "/", "b", "/", "c", "/", "d", "/">>,
     title |-> <<"A", "B", "C", "D">>, content |-> <<"c">>,
     category |-> <<"p", "a", "g", "e">>, is_product |-> FALSE],
   [url |-> <<"h", "t", "t", "p", "s", ":", "/", "/", "d", "/", "a", "/", "b">>,
     title |-> <<"a", "b">>, content |-> <<"e">>,
     category |-> <<"p", "a", "g", "e">>, is_product |-> FALSE],
   [url |-> <<"h", "t", "t", "p", ":", "/", "/", "d", "/", "a", "/">>,
     title |-> <<"A", "2">>, content |-> <<"f">>,
     category |-> <<"p", "a", "g", "e">>, is_product |-> TRUE],
   [url |-> <<"a", "/", "b", "/", "c", "/">>,
     title |-> <<"A", "B", "C">>, content |-> <<"g">>,
     category |-> <<"p", "a", "g", "e">>, is_product |-> FALSE]}

\* the tree builder's inputs
Init == InitProcessor /\ input_file \in InputFiles(PageLists(TreePages))

Spec == Init /\ [][Next]_vars

(***************************************************************************)
(* Properties of the tree builder                                           *)
(***************************************************************************)

\* _create_nodes has returned
NodesCreated ==
  pc \in {"nodes_created", "tree_built", "blocks_extracted", "blocks_replaced",
          "returned_true", "raised_ZeroDivisionError",
          "raised_KeyError_in_blocks"}

\* _build_tree_structure has returned
TreeBuilt ==
  pc \in {"tree_built", "blocks_extracted", "blocks_replaced",
          "returned_true", "raised_ZeroDivisionError",
          "raised_KeyError_in_blocks"}

\* '/s1/.../sk/'
AncestorPath(segments, k) ==
  <<"/">> \o Join(SubSeq(segments, 1, k), <<"/">>) \o <<"/">>

\* the k with 1 <= k < n for which the path map has a node at '/s1/.../sk/'
ExistingAncestors(segments) ==
  {k \in 1..(Len(segments) - 1) : DictHas(nodes_by_path, AncestorPath(segments, k))}

NearestAncestor(segments, ks) ==
  IF ks = {} THEN <<"/">> ELSE AncestorPath(segments, Max(ks))

NearestAncestorOf(path) ==
  NearestAncestor(PathParts(path), ExistingAncestors(PathParts(path)))

\* C1: after the tree build the parent of every non-root node of the path
\* map is the node at '/s1/.../sk/' for the largest k with 1 <= k < n that
\* has a node in the path map, and the root when there is no such k.
C1_NearestAncestorParent ==
  TreeBuilt =>
    \A e \in 1..Len(nodes_by_path) :
      nodes_by_path[e].key # <<"/">> =>
        /\ nodes[nodes_by_path[e].val].parent # 0
        /\ nodes[nodes_by_path[e].val].parent =
             DictGet(nodes_by_path, NearestAncestorOf(nodes_by_path[e].key))
        /\ nodes[nodes[nodes_by_path[e].val].parent].path =
             NearestAncestorOf(nodes_by_path[e].key)

\* C1 witness: pages at /a/, /a/b/ and /a/b/c/d/, none at /a/b/c/, and the
\* node /a/b/c/d/ is a child of /a/b/
C1_Witness ==
  /\ TreeBuilt
  /\ DictHas(nodes_by_path, <<"/", "a", "/">>)
  /\ DictHas(nodes_by_path, <<"/", "a", "/", "b", "/">>)
  /\ DictHas(nodes_by_path, <<"/", "a", "/", "b", "/", "c", "/", "d", "/">>)
  /\ ~DictHas(nodes_by_path, <<"/", "a", "/", "b", "/", "c", "/">>)
  /\ nodes[DictGet(nodes_by_path,
                   <<"/", "a", "/", "b", "/", "c", "/", "d", "/">>)].parent =
       DictGet(nodes_by_path, <<"/", "a", "/", "b", "/">>)

\* the places (m, k) where node n stands in a children list
ChildSlots(n) ==
  {slot \in (1..Len(nodes)) \X (1..Len(nodes)) :
     /\ slot[2] <= Len(nodes[slot[1]].children)
     /\ nodes[slot[1]].children[slot[2]] = n}

RECURSIVE ReachesRoot(_, _)
\* following parent references from n reaches the root within `steps` steps
ReachesRoot(n, steps) ==
  \/ n = master_node
  \/ /\ steps > 0
     /\ nodes[n].parent # 0
     /\ ReachesRoot(nodes[n].parent, steps - 1)

\* C2: after the tree build the root has no parent, every other node of the
\* path map has a parent, stands exactly once in exactly one children list,
\* its parent's, and reaches the root by parent references.
C2_TreeConnectivity ==
  TreeBuilt =>
    /\ nodes[master_node].parent = 0
    /\ ChildSlots(master_node) = {}
    /\ \A e \in 1..Len(nodes_by_path) :
         nodes_by_path[e].key # <<"/">> =>
           /\ nodes[nodes_by_path[e].val].parent # 0
           /\ Cardinality(ChildSlots(nodes_by_path[e].val)) = 1
           /\ \A slot \in ChildSlots(nodes_by_path[e].val) :
                slot[1] = nodes[nodes_by_path[e].val].parent
           /\ ReachesRoot(nodes_by_path[e].val, Len(nodes))

\* C2 witness: a tree of three levels built from a page list in which a
\* path occurs twice
C2_Witness ==
  /\ TreeBuilt
  /\ Len(nodes) > Len(nodes_by_path)
  /\ \E e \in 1..Len(nodes_by_path) :
       /\ nodes[nodes_by_path[e].val].parent # 0
       /\ nodes[nodes_by_path[e].val].parent # master_node

RECURSIVE Reachable(_, _)
\* the nodes reached from n by children edges of at most `steps` steps
Reachable(n, steps) ==
  {n} \cup (IF steps = 0 THEN {}
            ELSE UNION {Reachable(nodes[n].children[k], steps - 1) :
                          k \in 1..Len(nodes[n].children)})

\* the nodes of the tree
TreeNodes == Reachable(master_node, Len(nodes))

\* C9: no two distinct nodes reachable from the root have the same path, and
\* exactly one reachable node, the root, has path '/'.
C9_PathUniqueness ==
  TreeBuilt =>
    /\ \A a, b \in TreeNodes : a # b => nodes[a].path # nodes[b].path
    /\ {n \in TreeNodes : nodes[n].path = <<"/">>} = {master_node}

\* C9 witness: two page records have the same URL path and the tree has a
\* node at that path
C9_Witness ==
  /\ TreeBuilt
  /\ \E i, j \in 1..Len(pages) :
       /\ i < j
       /\ ~IsHomepage(pages[i].url)
       /\ NodePath(pages[i].url) = NodePath(pages[j].url)
       /\ \E n \in TreeNodes : nodes[n].path = NodePath(pages[i].url)

\* the page records whose URL has path '/' or the empty path
HomepageRecords ==
  {k \in 1..Len(pages) : urlparse(pages[k].url).path \in {<<"/">>, <<>>}}

RootHolds(page) ==
  /\ nodes[master_node].title = page.title
  /\ nodes[master_node].content = page.content
  /\ nodes[master_node].category = page.category
  /\ nodes[master_node].is_product = page.is_product

\* C10: whenever a page record's URL has path '/' or the empty path, the
\* root's title, content, category and is_product after _create_nodes are
\* those of the last such record.
C10_HomepageOverwrite ==
  (NodesCreated /\ HomepageRecords # {}) => RootHolds(pages[Max(HomepageRecords)])

\* the root is at path '/', titled '<host> Homepage' and has empty content
SynthesizedRoot(n, host) ==
  /\ n.path = <<"/">>
  /\ n.title = host \o <<" ", "H", "o", "m", "e", "p", "a", "g", "e">>
  /\ n.content = <<>>

\* the exported root: the content key is left out for empty content
ExportedRoot(d, host) ==
  /\ d.path = <<"/">>
  /\ d.title = host \o <<" ", "H", "o", "m", "e", "p", "a", "g", "e">>
  /\ d.content = None

\* C11: for a non-empty page list in which no page has path '/' or the empty
\* path, the root node exists with path '/', title '<domain> Homepage' for
\* the host of the first page's URL and empty content, and it is the node
\* exported as master_node.
C11_RootSynthesis ==
  (NodesCreated /\ HomepageRecords = {}) =>
    /\ master_node # 0
    /\ DictGet(nodes_by_path, <<"/">>) = master_node
    /\ SynthesizedRoot(nodes[master_node], urlparse(pages[1].url).netloc)
    /\ pc = "returned_true" =>
         /\ output_file.website.master_node = _node_to_dict(nodes, master_node)
         /\ ExportedRoot(output_file.website.master_node,
                         urlparse(pages[1].url).netloc)

\* C11 witness: two pages or more, none of them a homepage record, on the
\* host 'd', have been exported
C11_Witness ==
  /\ pc = "returned_true"
  /\ Len(pages) >= 2
  /\ HomepageRecords = {}
  /\ output_file.website.master_node.title =
       <<"d", " ", "H", "o", "m", "e", "p", "a", "g", "e">>

\* process() has not gone past _load_data, or has returned False
NotPastLoad == pc \in {"init", "returned_false"}

\* nothing has been created, registered or written
Untouched ==
  /\ master_node = 0
  /\ nodes = <<>>
  /\ nodes_by_path = <<>>
  /\ nodes_by_url = <<>>
  /\ common_blocks = <<>>
  /\ output_file = None

\* C12: when the input file parses to an empty page list, process() reports
\* a load failure and returns False: it does not raise and runs none of node
\* creation, tree building, block extraction, rewriting and export.
C12_EmptyInputLoadFailure ==
  (input_file.kind = "json" /\ input_file.pages = <<>>) =>
    NotPastLoad /\ Untouched

\* C13: when the input file is missing or is not valid JSON, process()
\* returns False and no later stage runs: master_node stays None, the path
\* map and the block registry stay empty and no output file is written.
C13_FatalLoadFailure ==
  input_file.kind \in {"missing", "invalid"} =>
    NotPastLoad /\ Untouched /\ pages = <<>>

\* C13 witness: process() has returned False for a file that is not JSON
C13_Witness ==
  /\ input_file.kind = "invalid"
  /\ pc = "returned_false"
  /\ master_node = 0

\* 60 characters without a delimiter of the chunk splitter
LongChunk ==
  LET alphabet == <<"a", "b", "c", "d", "e", "f", "g", "h", "i", "j", "k", "l", "m", "n", "o", "p", "q", "r", "s", "t", "u", "v", "w", "x", "y", "z", "0", "1", "2", "3", "4", "5", "6", "7", "8", "9">>
  IN [k \in 1..60 |-> alphabet[((k - 1) % 36) + 1]]

\* LongChunk with one character changed: ratio 118/120
LongChunkVariant == [LongChunk EXCEPT ![30] = "-"]

\* Page contents for the block extractor and the rewriter: the header
\* followed by page text, the header inside the text, a first line that
\* holds the header and the links section, the links section followed by the
\* footer, and texts with a long chunk that repeats across pages.
BlockContents ==
  {header_pattern \o <<"\n", "a", "l", "p", "h", "a">>,
   header_pattern \o <<"\n", "b", "e", "t", "a">>,
   <<"i", "n", "t", "r", "o", " ">> \o header_pattern \o <<" ", "o", "u", "t", "r", "o">>,
   header_pattern \o <<" ">> \o links_pattern \o <<" ", "h", "e", "r", "e", " ">> \o Newsletter
     \o <<"\n", "g", "a", "m", "m", "a">>,
   <<"d", "e", "l", "t", "a", " ">> \o links_pattern \o <<" ", "t", "h", "e", "r", "e", " ">> \o footer_pattern,
   LongChunk,
   <<"n", "e", "w", "s", "\n", "\n">> \o LongChunkVariant}

\* the URL of page k of a block input: the first page may be the homepage
BlockUrls(k) ==
  {https \o <<"d", "/", "p">> \o Decimal(k) \o <<"/">>}
    \cup (IF k = 1 THEN {https \o <<"d", "/">>} ELSE {})

BlockPageLists ==
  UNION {{ps \in [1..n -> [url : UNION {BlockUrls(k) : k \in 1..n},
                           title : {<<"T">>},
                           content : BlockContents,
                           category : {<<"p", "a", "g", "e">>},
                           is_product : {FALSE}]] :
            \A k \in 1..n : ps[k].url \in BlockUrls(k)} : n \in 1..MaxPages}

\* the block extractor's inputs
InitBlocks == InitProcessor /\ input_file \in InputFiles(BlockPageLists)

SpecBlocks == InitBlocks /\ [][Next]_vars

(***************************************************************************)
(* Properties of the block extractor and the rewriter                       *)
(***************************************************************************)

\* _extract_common_blocks has returned or raised
Extracted ==
  pc \in {"blocks_extracted", "blocks_replaced", "returned_true",
          "raised_ZeroDivisionError"}

\* _replace_common_blocks_in_content has returned
Rewritten == pc \in {"blocks_replaced", "returned_true"}

\* the spans applied to the content of the node at a path
AppliedSpans(path) ==
  IF DictHas(replaced, path) THEN DictGet(replaced, path) ELSE <<>>

\* the URLs of the pages the node n was built from
PageUrlsOf(n) ==
  {nodes_by_url[k].key : k \in {j \in 1..Len(nodes_by_url) : nodes_by_url[j].val = n}}

\* the URL of a page of node n is in the block's occurrences list
InOccurrences(block, n) ==
  \E k \in 1..Len(block.occurrences) : block.occurrences[k] \in PageUrlsOf(n)

\* block a is strictly shorter than block b and its text is inside b's text
Embedded(a, b) ==
  Len(a.content) < Len(b.content) /\ Contains(b.content, a.content)

\* the span [p, p + len) of the content is replaced by the token of block id
ReplacedBy(spans, id, p, len) ==
  \E k \in 1..Len(spans) :
    spans[k].block_id = id /\ spans[k].start = p /\ spans[k].end = p + len

\* a token of block id replaces a span inside [p, p + len)
TokenInside(spans, id, p, len) ==
  \E k \in 1..Len(spans) :
    spans[k].block_id = id /\ spans[k].start >= p /\ spans[k].end <= p + len

\* the claim of C3 for the node n at a path, the longer block b and the
\* shorter block a
LongerWins(path, n, b, a) ==
  \A p \in 0..Len(nodes[n].content) :
    OccursAt(nodes[n].content, b.val.content, p) =>
      /\ ReplacedBy(AppliedSpans(path), b.key, p, Len(b.val.content))
      /\ ~TokenInside(AppliedSpans(path), a.key, p, Len(b.val.content))

\* C3: when a node's content holds an occurrence of block B and B's text
\* holds the text of a strictly shorter block A, the span is replaced by B's
\* token and no token of A replaces a part of it, wherever A lies inside B.
C3_LongerBlockWins ==
  Rewritten =>
    \A e \in 1..Len(nodes_by_path) :
      \A b, a \in 1..Len(common_blocks) :
        (/\ Embedded(common_blocks[a].val, common_blocks[b].val)
         /\ common_blocks[b].val.auto_detected
              \/ InOccurrences(common_blocks[b].val, nodes_by_path[e].val))
          => LongerWins(nodes_by_path[e].key, nodes_by_path[e].val,
                        common_blocks[b], common_blocks[a])

\* the spans are ranges of the content and no two of them share a position
Disjoint(spans, content) ==
  /\ \A i \in 1..Len(spans) :
       0 <= spans[i].start /\ spans[i].start < spans[i].end
         /\ spans[i].end <= Len(content)
  /\ \A i, j \in 1..Len(spans) :
       i # j => spans[i].end <= spans[j].start \/ spans[j].end <= spans[i].start

\* C4: the spans the rewriter applies to a node's content are pairwise
\* disjoint character ranges of the original content.
C4_NonOverlap ==
  Rewritten =>
    \A e \in 1..Len(replaced) :
      Disjoint(replaced[e].val, nodes[DictGet(nodes_by_path, replaced[e].key)].content)

\* the replacements found for the node at entry e of the path map
Candidates(e) ==
  CollectReplacements(nodes[nodes_by_path[e].val].content,
                      nodes[nodes_by_path[e].val].full_url,
                      SortBlocks(BlocksToReplace(common_blocks)), 1)

\* C4 witness: the replacements found for a node overlap and the rewriter
\* has applied only some of them
C4_Witness ==
  /\ Rewritten
  /\ \E e \in 1..Len(nodes_by_path) :
       /\ AppliedSpans(nodes_by_path[e].key) # <<>>
       /\ Len(Candidates(e)) > Len(AppliedSpans(nodes_by_path[e].key))

\* the entry block_id -> block_name of a node with this processed content
UsedEntryHolds(used, processed_content) ==
  /\ processed_content # None
  /\ Contains(processed_content, <<"[">> \o used.val \o <<"]">>)
  /\ DictHas(common_blocks, used.key)
  /\ DictGet(common_blocks, used.key).name = used.val

\* C5: after rewriting, for every entry block_id -> block_name of a node's
\* common_blocks_used the token '[block_name]' occurs in the node's
\* processed_content and block_id is a registry key whose name is block_name.
C5_RoundTripContainment ==
  Rewritten =>
    \A n \in 1..Len(nodes) :
      \A k \in 1..Len(nodes[n].common_blocks_used) :
        UsedEntryHolds(nodes[n].common_blocks_used[k], nodes[n].processed_content)

\* C5 witness: a node has used two blocks
C5_Witness ==
  /\ Rewritten
  /\ \E n \in 1..Len(nodes) : Len(nodes[n].common_blocks_used) >= 2

\* C6: a block that is not auto-detected is replaced in a node's content only
\* if the URL of the page the node was built from is in the block's
\* occurrences list.
C6_PredefinedMembershipChecked ==
  Rewritten =>
    \A e \in 1..Len(nodes_by_path) :
      \A k \in 1..Len(AppliedSpans(nodes_by_path[e].key)) :
        ~DictGet(common_blocks, AppliedSpans(nodes_by_path[e].key)[k].block_id).auto_detected
          => InOccurrences(
               DictGet(common_blocks, AppliedSpans(nodes_by_path[e].key)[k].block_id),
               nodes_by_path[e].val)

\* the set of the URLs of a list
UrlSet(urls) == {urls[k] : k \in 1..Len(urls)}

\* C7: no registry entry is added for a group of fewer than 3 occurrences,
\* and every auto-detected registry entry lists at least 3 URLs.
C7_ThresholdEnforcement ==
  Extracted =>
    /\ \A g \in 1..Len(chunk_groups) :
         chunk_groups[g].occurrences < 3 =>
           ~DictHas(common_blocks, <<"auto_block_", g>>)
    /\ \A k \in 1..Len(common_blocks) :
         common_blocks[k].val.auto_detected =>
           /\ Len(common_blocks[k].val.occurrences) >= 3
           /\ Cardinality(UrlSet(common_blocks[k].val.occurrences)) >= 3

\* C7 witness: the detection has run, two chunks of different pages are
\* similar, no third one is, and the registry has no auto-detected entry
C7_Witness ==
  /\ pc = "blocks_extracted"
  /\ use_ai
  /\ \E i, j \in 1..Len(all_chunks) :
       /\ all_chunks[i].url # all_chunks[j].url
       /\ Similar(all_chunks[i].content, all_chunks[j].content)
  /\ \A k \in 1..Len(common_blocks) : ~common_blocks[k].val.auto_detected

\* the text after the header anchor is page text: it holds no block
PageText(text) ==
  \A k \in 1..Len(common_blocks) : ~Contains(text, common_blocks[k].val.content)

\* the content starts with the header anchor followed by a newline
AnchorLine(content) == StartsWith(content, header_pattern \o <<"\n">>)

\* the pages that start with the anchor, a newline and page text
AnchorLinePages ==
  {k \in 1..Len(pages) :
     /\ AnchorLine(pages[k].content)
     /\ PageText(SliceFrom(pages[k].content, Len(header_pattern)))}

\* the pages that start with the anchor
AnchorPages ==
  SelectSeq(pages, LAMBDA page : StartsWith(page.content, header_pattern))

\* the registry entries of type 'header'
HeaderEntries ==
  {k \in 1..Len(common_blocks) : common_blocks[k].val.type = header}

\* exactly one block of type 'header', named 'site_header', whose occurrences
\* are the URLs of the pages that start with the anchor
HeaderRegistered ==
  /\ Cardinality(HeaderEntries) = 1
  /\ \A k \in HeaderEntries :
       /\ common_blocks[k].val.name = site_header
       /\ common_blocks[k].val.occurrences = Urls(AnchorPages)

\* the node of page k has the leading header text replaced by the token and
\* the rest of the content unchanged
HeaderReplaced(k) ==
  /\ DictHas(nodes_by_url, pages[k].url)
  /\ nodes[DictGet(nodes_by_url, pages[k].url)].processed_content =
       <<"[">> \o site_header \o <<"]">>
         \o SliceFrom(pages[k].content, Len(header_pattern))

\* C8 as stated: when more than half of the pages start with the header
\* anchor, a newline and page text, one header block is registered with the
\* URLs of the pages that start with the anchor, and each of those pages'
\* nodes has the leading header text replaced by '[site_header]'.
C8_HeaderScenario ==
  (Rewritten /\ 2 * Cardinality(AnchorLinePages) > Len(pages)) =>
    /\ HeaderRegistered
    /\ \A k \in AnchorLinePages : HeaderReplaced(k)

\* C8, amended: the same, for page lists whose first page that starts with
\* the anchor has the newline right after it.
C8_HeaderScenarioFirstPage ==
  (/\ Rewritten
   /\ 2 * Cardinality(AnchorLinePages) > Len(pages)
   /\ AnchorLine(AnchorPages[1].content)) =>
    /\ HeaderRegistered
    /\ \A k \in AnchorLinePages : HeaderReplaced(k)

\* C8 witness: two of three pages start with the anchor and a newline, the
\* third does not start with the anchor, and both nodes hold the token
C8_Witness ==
  /\ Rewritten
  /\ Len(pages) = 3
  /\ Cardinality(AnchorLinePages) = 2
  /\ Len(AnchorPages) = 2
  /\ HeaderRegistered
  /\ \A k \in AnchorLinePages : HeaderReplaced(k)

(***************************************************************************)
(* Page records that lack fields                                            *)
(***************************************************************************)

\* Page records for the handling of defective records: a complete record, a
\* record without title, one without category and is_product, one without
\* url, a homepage record with the empty path and without content, and the
\* homepage record of the domain without category.
RecordPages ==
  {[url |-> <<"h", "t", "t", "p", "s", ":", "/", "/", "d", "/", "a", "/">>,
     title |-> <<"A">>, content |-> <<"a">>,
     category |-> <<"p", "a", "g", "e">>, is_product |-> FALSE],
   [url |-> <<"h", "t", "t", "p", "s", ":", "/", "/", "d", "/", "b", "/">>,
     content |-> <<"b">>,
     category |-> <<"p", "a", "g", "e">>, is_product |-> FALSE],
   [url |-> <<"h", "t", "t", "p", "s", ":", "/", "/", "d", "/", "c", "/">>,
     title |-> <<"C">>, content |-> <<"c">>],
   [title |-> <<"U">>, content |-> <<"u">>,
     category |-> <<"p", "a", "g", "e">>, is_product |-> FALSE],
   [url |-> <<"h", "t", "t", "p", "s", ":", "/", "/", "d">>,
     title |-> <<"E">>,
     category |-> <<"p", "a", "g", "e">>, is_product |-> FALSE],
   [url |-> <<"h", "t", "t", "p", "s", ":", "/", "/", "d", "/">>,
     title |-> <<"H">>, content |-> <<"h">>, is_product |-> TRUE]}

\* the inputs with defective records
InitRecords == InitProcessor /\ input_file \in InputFiles(PageLists(RecordPages))

SpecRecords == InitRecords /\ [][Next]_vars

\* the record has the five fields of a page record
Complete(page) ==
  HasKeys(page, {"url", "title", "content", "category", "is_product"})

\* the node of the page is a node of the exported tree
Exported(page) ==
  /\ DictHas(nodes_by_url, page.url)
  /\ DictGet(nodes_by_url, page.url) \in TreeNodes
  /\ nodes[DictGet(nodes_by_url, page.url)].title = page.title

\* C14: when a page record of a loaded list lacks a field, the page is
\* skipped and the pipeline goes on: process() does not raise, and once it
\* has returned True every complete record that is not a homepage record has
\* its node in the exported tree.
C14_SkipAndContinue ==
  (pc # "init" /\ \E k \in 1..Len(pages) : ~Complete(pages[k])) =>
    /\ pc \notin {"raised_KeyError", "raised_KeyError_in_blocks"}
    /\ pc = "returned_true" =>
         \A k \in 1..Len(pages) :
           (Complete(pages[k]) /\ ~IsHomepage(pages[k].url)) => Exported(pages[k])

(***************************************************************************)
(* Inputs for the similarity detector                                       *)
(***************************************************************************)

\* Page contents for _detect_repeated_content_blocks, chunks of 60
\* characters joined by empty lines: LongChunk and LongChunk with five
\* characters changed (ratio 110/120); the header, the chunk with five and
\* the chunk with ten characters changed (ratio 110/120 to the one with
\* five and 100/120 to LongChunk); and two contents of five and of four
\* chunks that hold keywords of the classifier's patterns in capital letters.
DetectContents ==
  {LongChunk \o <<"\n", "\n">>
     \o [LongChunk EXCEPT ![6] = "-", ![18] = "-", ![30] = "-", ![42] = "-", ![54] = "-"],
   header_pattern \o <<"\n", "\n">>
     \o [LongChunk EXCEPT ![6] = "-", ![18] = "-", ![30] = "-", ![42] = "-", ![54] = "-"]
     \o <<"\n", "\n">>
     \o [LongChunk EXCEPT ![6] = "-", ![18] = "-", ![30] = "-", ![42] = "-", ![54] = "-",
                          ![12] = "-", ![24] = "-", ![36] = "-", ![48] = "-", ![57] = "-"],
   <<"M", "E", "N", "U", "-", "P", "R", "O", "D", "U", "K", "T", "Y", "-", "R",
     "A", "C", "S", "-", "=", "=", "=", "=", "=", "=", "=", "=", "=", "=", "=",
     "=", "=", "=", "=", "=", "=", "=", "=", "=", "=", "=", "=", "=", "=", "=",
     "=", "=", "=", "=", "=", "=", "=", "=", "=", "=", "=", "=", "=", "=", "=">>
     \o <<"\n", "\n">> \o <<"R", "A", "C", "S", "-", "K", "O", "N", "T", "A", "K", "T", "-", "#", "#",
                            "#", "#", "#", "#", "#", "#", "#", "#", "#", "#", "#", "#", "#", "#", "#",
                            "#", "#", "#", "#", "#", "#", "#", "#", "#", "#", "#", "#", "#", "#", "#",
                            "#", "#", "#", "#", "#", "#", "#", "#", "#", "#", "#", "#", "#", "#", "#">>
     \o <<"\n", "\n">> \o <<"W", "S", "P", "A", "R", "C", "I", "E", "-", "P", "O", "B", "I", "E", "R",
                            "Z", "-", "_", "_", "_", "_", "_", "_", "_", "_", "_", "_", "_", "_", "_",
                            "_", "_", "_", "_", "_", "_", "_", "_", "_", "_", "_", "_", "_", "_", "_",
                            "_", "_", "_", "_", "_", "_", "_", "_", "_", "_", "_", "_", "_", "_", "_">>
     \o <<"\n", "\n">> \o <<"P", "O", "B", "I", "E", "R", "Z", "-", "F", "O", "R", "M", "U", "L", "A",
                            "R", "Z", "-", "+", "+", "+", "+", "+", "+", "+", "+", "+", "+", "+", "+",
                            "+", "+", "+", "+", "+", "+", "+", "+", "+", "+", "+", "+", "+", "+", "+",
                            "+", "+", "+", "+", "+", "+", "+", "+", "+", "+", "+", "+", "+", "+", "+">>
     \o <<"\n", "\n">> \o <<"L", "O", "G", "O", "W", "A", "N", "I", "E", "-", "C", "H", "A", "R", "A",
                            "K", "T", "E", "R", "Y", "S", "T", "Y", "K", "A", "-", "*", "*", "*", "*",
                            "*", "*", "*", "*", "*", "*", "*", "*", "*", "*", "*", "*", "*", "*", "*",
                            "*", "*", "*", "*", "*", "*", "*", "*", "*", "*", "*", "*", "*", "*", "*">>,
   <<"C", "H", "A", "R", "A", "K", "T", "E", "R", "Y", "S", "T", "Y", "K", "A",
     "-", "C", "E", "C", "H", "Y", "-", "~", "~", "~", "~", "~", "~", "~", "~",
     "~", "~", "~", "~", "~", "~", "~", "~", "~", "~", "~", "~", "~", "~", "~",
     "~", "~", "~", "~", "~", "~", "~", "~", "~", "~", "~", "~", "~", "~", "~">>
     \o <<"\n", "\n">> \o <<"W", "D", "R", "O", "U+017B", "E", "N", "I", "E", "-", "F", "U", "N", "K", "C",
                            "J", "E", "-", "%", "%", "%", "%", "%", "%", "%", "%", "%", "%", "%", "%",
                            "%", "%", "%", "%", "%", "%", "%", "%", "%", "%", "%", "%", "%", "%", "%",
                            "%", "%", "%", "%", "%", "%", "%", "%", "%", "%", "%", "%", "%", "%", "%">>
     \o <<"\n", "\n">> \o <<"C", "E", "C", "H", "Y", "-", "P", "L", "I", "K", "I", "-", "&", "&", "&",
                            "&", "&", "&", "&", "&", "&", "&", "&", "&", "&", "&", "&", "&", "&", "&",
                            "&", "&", "&", "&", "&", "&", "&", "&", "&", "&", "&", "&", "&", "&", "&",
                            "&", "&", "&", "&", "&", "&", "&", "&", "&", "&", "&", "&", "&", "&", "&">>
     \o <<"\n", "\n">> \o <<"D", "O", "W", "N", "L", "O", "A", "D", "-", "O", "N", "L", "Y", "-", "@",
                            "@", "@", "@", "@", "@", "@", "@", "@", "@", "@", "@", "@", "@", "@", "@",
                            "@", "@", "@", "@", "@", "@", "@", "@", "@", "@", "@", "@", "@", "@", "@",
                            "@", "@", "@", "@", "@", "@", "@", "@", "@", "@", "@", "@", "@", "@", "@">>}

\* the page lists of the detector's inputs: page k has the URL https://d/pk/
DetectPageLists ==
  UNION {{[k \in 1..n |->
             [url |-> https \o <<"d", "/", "p">> \o Decimal(k) \o <<"/">>,
              title |-> <<"T">>,
              content |-> contents[k],
              category |-> <<"p", "a", "g", "e">>,
              is_product |-> FALSE]] :
            contents \in [1..n -> DetectContents]} : n \in 1..MaxPages}

\* the detector's inputs
InitDetect == InitProcessor /\ input_file \in InputFiles(DetectPageLists)

SpecDetect == InitDetect /\ [][Next]_vars

(***************************************************************************)
(* Properties of the similarity detector                                    *)
(***************************************************************************)

\* the URLs of the chunks of group g: the representative's, then the members'
GroupUrls(g) ==
  <<chunk_groups[g].representative.url>>
    \o [k \in 1..Len(chunk_groups[g].similar_indices) |->
          all_chunks[chunk_groups[g].similar_indices[k]].url]

\* no element of the list occurs twice
NoRepeat(list) ==
  \A i, j \in 1..Len(list) : i # j => list[i] # list[j]

\* C15: in every group of the similarity detection the representative and
\* the members come from pairwise different page URLs, and the occurrences
\* list of every auto-detected block holds no URL twice and is not longer
\* than the page list.
C15_SamePageChunksNeverGroup ==
  Extracted =>
    /\ \A g \in 1..Len(chunk_groups) : NoRepeat(GroupUrls(g))
    /\ \A k \in 1..Len(common_blocks) :
         common_blocks[k].val.auto_detected =>
           /\ NoRepeat(common_blocks[k].val.occurrences)
           /\ Len(common_blocks[k].val.occurrences) <= Len(pages)

\* C15 witness: two chunks of one page are similar, one of them is the
\* representative of a group that became an auto-detected block
C15_Witness ==
  /\ pc = "blocks_extracted"
  /\ \E g \in 1..Len(chunk_groups) :
       /\ DictHas(common_blocks, <<"auto_block_", g>>)
       /\ \E j \in 1..Len(all_chunks) :
            /\ all_chunks[j] # chunk_groups[g].representative
            /\ all_chunks[j].url = chunk_groups[g].representative.url
            /\ Similar(all_chunks[j].content,
                       chunk_groups[g].representative.content)

\* the indices in all_chunks of the representative of group g
RepIndices(g) ==
  {i \in 1..Len(all_chunks) : all_chunks[i] = chunk_groups[g].representative}

\* the indices of the chunks of group g, representative and members
GroupIndices(g) ==
  RepIndices(g)
    \cup {chunk_groups[g].similar_indices[k] :
            k \in 1..Len(chunk_groups[g].similar_indices)}

\* C16: each chunk index belongs to at most one group of chunk_groups, as
\* representative or as member: the representative is one chunk that is not
\* among the members, no member is listed twice, and two groups share no
\* index.
C16_GroupExclusivity ==
  Extracted =>
    /\ \A g \in 1..Len(chunk_groups) :
         /\ Cardinality(RepIndices(g)) = 1
         /\ NoRepeat(chunk_groups[g].similar_indices)
         /\ \A k \in 1..Len(chunk_groups[g].similar_indices) :
              chunk_groups[g].similar_indices[k] \notin RepIndices(g)
    /\ \A g, h \in 1..Len(chunk_groups) :
         g # h => GroupIndices(g) \cap GroupIndices(h) = {}

\* C16 witness: two groups, and a member of one is similar to the
\* representative of the other and comes from another page than it
C16_Witness ==
  /\ pc = "blocks_extracted"
  /\ \E g, h \in 1..Len(chunk_groups) :
       /\ g # h
       /\ \E k \in 1..Len(chunk_groups[g].similar_indices) :
            /\ all_chunks[chunk_groups[g].similar_indices[k]].url
                 # chunk_groups[h].representative.url
            /\ Similar(all_chunks[chunk_groups[g].similar_indices[k]].content,
                       chunk_groups[h].representative.content)

\* C17: the stages of process() run in their order and the similarity-based
\* detection is one of them: when the rewriter has run, the detection has
\* run before it, and the registry the rewriter worked on holds the
\* auto-detected block of every group of similar chunks of the pages.
C17_StageOrder ==
  Rewritten =>
    /\ use_ai
    /\ all_chunks = AllChunks(pages)
    /\ \A g \in 1..Len(ChunkGroups(AllChunks(pages))) :
         DictHas(common_blocks, <<"auto_block_", g>>)

\* C18, as stated: every registry entry, predefined or auto-detected, has a
\* content that is not empty and has at least CHUNK_MIN_LENGTH characters.
C18_BlockContentLength ==
  Extracted =>
    \A k \in 1..Len(common_blocks) :
      /\ common_blocks[k].val.content # <<>>
      /\ Len(common_blocks[k].val.content) >= CHUNK_MIN_LENGTH

\* C18, amended: every registry entry has a content that is not empty, and
\* the content of every auto-detected entry has at least CHUNK_MIN_LENGTH
\* characters; a predefined entry may be shorter.
C18_AutoBlockContentLength ==
  Extracted =>
    \A k \in 1..Len(common_blocks) :
      /\ common_blocks[k].val.content # <<>>
      /\ common_blocks[k].val.auto_detected =>
           Len(common_blocks[k].val.content) >= CHUNK_MIN_LENGTH

\* C18 witness: the registry holds a predefined entry that is shorter than
\* CHUNK_MIN_LENGTH and an auto-detected entry
C18_Witness ==
  /\ pc = "blocks_extracted"
  /\ \E k \in 1..Len(common_blocks) :
       /\ ~common_blocks[k].val.auto_detected
       /\ Len(common_blocks[k].val.content) < CHUNK_MIN_LENGTH
  /\ \E k \in 1..Len(common_blocks) : common_blocks[k].val.auto_detected

\* C19: after both extraction phases no two registry entries have the same
\* id and no two have the same name.
C19_UniqueIdsAndNames ==
  Extracted =>
    \A i, j \in 1..Len(common_blocks) :
      i # j =>
        /\ common_blocks[i].key # common_blocks[j].key
        /\ common_blocks[i].val.name # common_blocks[j].val.name

\* C19 witness: the registry holds a predefined entry and two auto-detected
\* entries of the same type
C19_Witness ==
  /\ pc = "blocks_extracted"
  /\ \E k \in 1..Len(common_blocks) : ~common_blocks[k].val.auto_detected
  /\ \E i, j \in 1..Len(common_blocks) :
       /\ i # j
       /\ common_blocks[i].val.auto_detected
       /\ common_blocks[j].val.auto_detected
       /\ common_blocks[i].val.type = common_blocks[j].val.type

\* the tags in the order of the claim
TagOrder ==
  <<<<"n", "a", "v", "i", "g", "a", "t", "i", "o", "n">>,
    <<"p", "r", "o", "d", "u", "c", "t", "_", "l", "i", "s", "t">>,
    <<"c", "o", "n", "t", "a", "c", "t", "_", "i", "n", "f", "o">>,
    <<"l", "i", "n", "k", "s", "_", "s", "e", "c", "t", "i", "o", "n">>,
    <<"f", "o", "r", "m", "_", "s", "e", "c", "t", "i", "o", "n">>,
    <<"i", "n", "t", "r", "o", "_", "s", "e", "c", "t", "i", "o", "n">>,
    <<"c", "a", "s", "e", "_", "s", "t", "u", "d", "y">>,
    <<"k", "e", "y", "_", "f", "e", "a", "t", "u", "r", "e", "s">>,
    <<"d", "o", "w", "n", "l", "o", "a", "d", "_", "s", "e", "c", "t", "i", "o", "n">>>>

\* a keyword of the tag occurs in the text
TagHit(text, tag) ==
  \E t \in 1..Len(patterns) :
    /\ patterns[t].type = tag
    /\ \E k \in 1..Len(patterns[t].keywords) :
         Contains(text, patterns[t].keywords[k])

\* the first tag of TagOrder among those at the positions hits
FirstTag(hits) ==
  IF hits = {} THEN <<"c", "o", "n", "t", "e", "n", "t", "_", "b", "l", "o", "c", "k">>
  ELSE TagOrder[Min(hits)]

\* the tag the claim gives to a content
ClaimedTag(content) ==
  FirstTag({t \in 1..Len(TagOrder) : TagHit(ToLower(content), TagOrder[t])})

\* C20: _classify_content_block returns the first tag, in the order
\* navigation, product_list, contact_info, links_section, form_section,
\* intro_section, case_study, key_features, download_section, one of whose
\* keywords occurs in the lower-cased content, and content_block when no
\* keyword occurs: for every chunk of the pages, and in the type of every
\* auto-detected registry entry.
C20_ClassifierFirstMatch ==
  Extracted =>
    /\ \A k \in 1..Len(all_chunks) :
         _classify_content_block(all_chunks[k].content)
           = ClaimedTag(all_chunks[k].content)
    /\ \A k \in 1..Len(common_blocks) :
         common_blocks[k].val.auto_detected =>
           common_blocks[k].val.type = ClaimedTag(common_blocks[k].val.content)

\* C20 witness: an auto-detected entry whose lower-cased content holds
\* keywords of two tags has the type that comes first of the two
C20_Witness ==
  /\ pc = "blocks_extracted"
  /\ \E k \in 1..Len(common_blocks) :
       /\ common_blocks[k].val.auto_detected
       /\ \E t, u \in 1..Len(TagOrder) :
            /\ t < u
            /\ TagHit(ToLower(common_blocks[k].val.content), TagOrder[t])
            /\ TagHit(ToLower(common_blocks[k].val.content), TagOrder[u])
            /\ common_blocks[k].val.type = TagOrder[t]

(***************************************************************************)
(* The candidate cap of _detect_repeated_content_blocks on its own: step 1  *)
(* with a ceiling small enough for the page lists to exceed it              *)
(***************************************************************************)

\* the ceiling that stands for MAX_CHUNKS
SmallCap == 2

\* pages of one, two and one chunk, of 60 to 63 characters
InitCap ==
  /\ InitProcessor
  /\ input_file \in InputFiles(
       UNION {{[k \in 1..n |->
                  [url |-> https \o <<"d", "/", "p">> \o Decimal(k) \o <<"/">>,
                   title |-> <<"T">>,
                   content |-> contents[k],
                   category |-> <<"p", "a", "g", "e">>,
                   is_product |-> FALSE]] :
                 contents \in [1..n -> {LongChunk,
                                        LongChunk \o <<"a", "b", "\n", "\n">>
                                          \o LongChunk \o <<"a">>,
                                        LongChunk \o <<"a", "b", "c">>}]} :
              n \in 1..MaxPages})

\* step 1: the chunks of all pages are collected and the cap is applied
SplitAndLimit ==
  /\ pc = "loaded"
  /\ pc' = "chunks_limited"
  /\ all_chunks' = LimitChunks(SplitPages(pages, 1), SmallCap)
  /\ UNCHANGED <<duplicate_paths, input_file, pages, domain, master_node, nodes,
                 nodes_by_path, nodes_by_url, common_blocks, use_ai,
                 chunk_groups, replaced, output_file>>

SpecCap == InitCap /\ [][LoadData \/ SplitAndLimit]_vars

(***************************************************************************)
(* Inputs for the seeds of the similarity detector and for the scan of the  *)
(* rewriter: a page of one chunk, a page of two chunks similar to it and to *)
(* each other, a page of one chunk similar to the second of them only, and  *)
(* a page whose header line starts with a chunk and holds the links block,  *)
(* which comes once more before the footer                                  *)
(***************************************************************************)

InitSeeds ==
  /\ InitProcessor
  /\ input_file \in InputFiles(
       UNION {{[k \in 1..n |->
                  [url |-> https \o <<"d", "/", "p">> \o Decimal(k) \o <<"/">>,
                   title |-> <<"T">>,
                   content |-> contents[k],
                   category |-> <<"p", "a", "g", "e">>,
                   is_product |-> FALSE]] :
                 contents \in
                   [1..n -> {LongChunk,
                             LongChunk \o <<"\n", "\n">>
                               \o [LongChunk EXCEPT ![6] = "-", ![18] = "-", ![30] = "-",
                                                    ![42] = "-", ![54] = "-"],
                             [LongChunk EXCEPT ![6] = "-", ![18] = "-", ![30] = "-",
                                               ![42] = "-", ![54] = "-", ![12] = "-",
                                               ![24] = "-", ![36] = "-", ![48] = "-",
                                               ![57] = "-"],
                             header_pattern \o <<"-">> \o [c \in 1..23 |-> "x"]
                               \o <<" ", " ", " ">> \o links_pattern
                               \o <<" ", "h", "e", "r", "e", " ">> \o Newsletter
                               \o <<"\n", "g", "a", "m", "m", "a", " ">>
                               \o links_pattern \o <<" ", "h", "e", "r", "e", " ">>
                               \o footer_pattern}]} :
              n \in 1..MaxPages})

SpecSeeds == InitSeeds /\ [][Next]_vars

(***************************************************************************)
(* Properties of the diagnostics, the frame and the knowledge base          *)
(***************************************************************************)

\* the page records that are not homepage records and map to the path
PathRecords(path) ==
  {k \in 1..Len(pages) :
     ~IsHomepage(pages[k].url) /\ NodePath(pages[k].url) = path}

\* the paths that more than one page record maps to
DuplicatedPaths ==
  {path \in {NodePath(pages[k].url) : k \in 1..Len(pages)} :
     Cardinality(PathRecords(path)) > 1}

\* C21: the duplicate check of the tree build reports as many duplicate paths
\* as there are paths that more than one page record maps to, and the path
\* map holds the node of the last record of each such path.
C21_DuplicatePathDiagnostics ==
  TreeBuilt =>
    /\ Len(duplicate_paths) = Cardinality(DuplicatedPaths)
    /\ \A path \in DuplicatedPaths :
         nodes[DictGet(nodes_by_path, path)].title
           = pages[Max(PathRecords(path))].title

\* C22: for the exported structure file, get_node_content(path) gives every
\* node of the path map its content as it was before the rewrite (no page
\* content of the inputs holds a '[').
C22_RewriteExpandRoundTrip ==
  pc = "returned_true" =>
    \A e \in 1..Len(nodes_by_path) :
      /\ DictHas(_build_path_map(<<>>, output_file.website.master_node),
                 nodes_by_path[e].key)
      /\ get_node_content(output_file, nodes_by_path[e].key).content
           = nodes[nodes_by_path[e].val].content

\* the replacement c is one of the spans
InSpans(spans, c) == \E k \in 1..Len(spans) : spans[k] = c

\* the replacement a is examined before the replacement c: it starts later,
\* or it starts at the same position and its block is longer
ExaminedBefore(a, c) ==
  \/ a.start > c.start
  \/ a.start = c.start /\ a.end > c.end

\* the candidate c of a node is accepted exactly when it shares no position
\* with an accepted span that was examined before it
AcceptedWhenFree(spans, c) ==
  InSpans(spans, c) <=>
    \A k \in 1..Len(spans) :
      ExaminedBefore(spans[k], c) => Positions(spans[k]) \cap Positions(c) = {}

\* of two candidates that start at the same position, the one of the longer
\* block is accepted and the other one is not
LongerAccepted(spans, c, d) ==
  (c.start = d.start /\ c.end > d.end) => InSpans(spans, c) /\ ~InSpans(spans, d)

\* C23: the candidate spans of a node are examined in descending start
\* position, a span is accepted exactly when none of its positions is
\* claimed by a span accepted before it, and of two candidates that start at
\* the same position the span of the longer block is the one accepted.
C23_OverlapResolutionOrder ==
  Rewritten =>
    \A e \in 1..Len(nodes_by_path) :
      \A i, j \in 1..Len(Candidates(e)) :
        /\ AcceptedWhenFree(AppliedSpans(nodes_by_path[e].key), Candidates(e)[i])
        /\ LongerAccepted(AppliedSpans(nodes_by_path[e].key),
                          Candidates(e)[i], Candidates(e)[j])

\* the first half of C23 alone: acceptance follows the examination order
C23_AcceptedInOrder ==
  Rewritten =>
    \A e \in 1..Len(nodes_by_path) :
      \A i \in 1..Len(Candidates(e)) :
        AcceptedWhenFree(AppliedSpans(nodes_by_path[e].key), Candidates(e)[i])

\* the pages whose content starts with the header anchor
HeaderAnchorPages == {k \in 1..Len(pages) : StartsWith(pages[k].content, header_pattern)}

\* the pages whose content ends with the footer anchor
FooterAnchorPages == {k \in 1..Len(pages) : EndsWith(pages[k].content, footer_pattern)}

\* the pages whose content contains the 'useful links' anchor
LinksAnchorPages == {k \in 1..Len(pages) : Contains(pages[k].content, links_pattern)}

\* the end anchor is found in the content at or after the start anchor
EndAnchorAfterStart(content) ==
  Find(content, Newsletter, Find(content, links_pattern, 0)) # -1

\* C24: a header (footer) block is registered only if the pages that start
\* (end) with its anchor are strictly more than half of the pages; the
\* 'useful links' block is registered only if at least 3 pages contain its
\* anchor and the first of them has the end anchor after the start anchor.
C24_StrictThresholds ==
  Extracted =>
    /\ DictHas(common_blocks, <<"header">>)
         => 2 * Cardinality(HeaderAnchorPages) > Len(pages)
    /\ DictHas(common_blocks, <<"footer">>)
         => 2 * Cardinality(FooterAnchorPages) > Len(pages)
    /\ DictHas(common_blocks, <<"useful_links">>)
         => /\ Cardinality(LinksAnchorPages) >= 3
            /\ EndAnchorAfterStart(pages[Min(LinksAnchorPages)].content)

\* C24 witness: exactly half of the pages start with the header anchor, two
\* pages contain the 'useful links' anchor, and neither block is registered
C24_Witness ==
  /\ pc = "blocks_extracted"
  /\ HeaderAnchorPages # {}
  /\ 2 * Cardinality(HeaderAnchorPages) = Len(pages)
  /\ Cardinality(LinksAnchorPages) = 2
  /\ ~DictHas(common_blocks, <<"header">>)
  /\ ~DictHas(common_blocks, <<"useful_links">>)

\* how many times the chunk c is in the list
Times(list, c) == Cardinality({k \in 1..Len(list) : list[k] = c})

\* the chunks of the list that the cap has discarded
Discarded(surviving, kept) ==
  {surviving[k] : k \in {j \in 1..Len(surviving) :
                           Times(surviving, surviving[j]) > Times(kept, surviving[j])}}

\* the claim of C25 for the chunks that survive the length filter, the
\* chunks that are compared and the ceiling
CapHolds(surviving, kept, max_chunks) ==
  IF Len(surviving) > max_chunks
  THEN /\ Len(kept) = max_chunks
       /\ \A k \in 1..Len(kept) : Times(kept, kept[k]) <= Times(surviving, kept[k])
       /\ \A d \in Discarded(surviving, kept) :
            \A k \in 1..Len(kept) : Len(d.content) <= Len(kept[k].content)
  ELSE kept = surviving

\* C25: when more chunks than the ceiling survive the minimum-length filter,
\* exactly that many are compared and no discarded chunk is strictly longer
\* than a kept one; otherwise all of them are compared, in page order.
C25_CandidateCap ==
  pc = "chunks_limited" => CapHolds(SplitPages(pages, 1), all_chunks, SmallCap)

\* C25 witness: more chunks than the ceiling survive, the first one in page
\* order is discarded and it is strictly shorter than every kept chunk
C25_Witness ==
  /\ pc = "chunks_limited"
  /\ Len(SplitPages(pages, 1)) > SmallCap
  /\ SplitPages(pages, 1)[1] \in Discarded(SplitPages(pages, 1), all_chunks)
  /\ \A k \in 1..Len(all_chunks) :
       Len(SplitPages(pages, 1)[1].content) < Len(all_chunks[k].content)

\* every node of the path map but the root has a parent in ns
AllAttached(ns) ==
  \A e \in 1..Len(nodes_by_path) :
    nodes_by_path[e].key # <<"/">> => ns[nodes_by_path[e].val].parent # 0

\* the second loop of _build_tree_structure changes nothing in ns
SweepIdle(ns) == OrphanSweep(nodes_by_path, master_node, 1, ns) = ns

\* C26: when the main parent-resolution pass ends every non-root node has a
\* parent, so the orphan sweep finds no node with an unset parent and
\* attaches no node a second time.
C26_MainPassExhaustive ==
  pc = "nodes_created" =>
    /\ AllAttached(MainPass(nodes_by_path, master_node, 1, nodes))
    /\ SweepIdle(MainPass(nodes_by_path, master_node, 1, nodes))

\* C26 witness: no candidate parent path of a node but the root path is a
\* key of the path map, the node has three path segments or more, and the
\* main pass has put it under the root
C26_Witness ==
  /\ pc = "nodes_created"
  /\ \E e \in 1..Len(nodes_by_path) :
       /\ Len(PathParts(nodes_by_path[e].key)) >= 3
       /\ nodes[nodes_by_path[e].val].parent = 0
       /\ ResolveParent(nodes_by_path, PathParts(nodes_by_path[e].key)) = <<"/">>
       /\ MainPass(nodes_by_path, master_node, 1, nodes)[nodes_by_path[e].val].parent
            = master_node

\* the node n has the same path, parent, children and content in the stores
\* before and after
SameNode(before, after, n) ==
  /\ after[n].path = before[n].path
  /\ after[n].parent = before[n].parent
  /\ after[n].children = before[n].children
  /\ after[n].content = before[n].content

\* what a step leaves as it was: the inputs, the tree and the contents, and
\* the block registry too when the step is the rewriter's
FrameKept ==
  /\ pages' = pages
  /\ input_file' = input_file
  /\ master_node' = master_node
  /\ nodes_by_path' = nodes_by_path
  /\ Len(nodes') = Len(nodes)
  /\ \A n \in 1..Len(nodes) : SameNode(nodes, nodes', n)
  /\ pc = "blocks_extracted" => common_blocks' = common_blocks

\* C27: _extract_common_blocks and _replace_common_blocks_in_content change
\* neither the page list nor the input; they leave every node its path,
\* parent, children (in order) and content and the path map its entries,
\* and the rewriter leaves the block registry as it was.
C27_ExtractionRewritingFrame ==
  [][(pc = "tree_built" \/ pc = "blocks_extracted") => FrameKept]_vars

\* C27 witness: the rewriter has run on a tree of several nodes, a node's
\* processed content differs from its content, and the content is still the
\* page's
C27_Witness ==
  /\ pc = "blocks_replaced"
  /\ nodes[master_node].children # <<>>
  /\ common_blocks # <<>>
  /\ \E e \in 1..Len(nodes_by_url) :
       /\ nodes[nodes_by_url[e].val].processed_content
            # nodes[nodes_by_url[e].val].content
       /\ nodes[nodes_by_url[e].val].parent # 0
       /\ \E k \in 1..Len(pages) :
            /\ pages[k].url = nodes_by_url[e].key
            /\ pages[k].content = nodes[nodes_by_url[e].val].content

\* the nodes after one more run of _replace_common_blocks_in_content
SecondRun ==
  ReplaceLoop(nodes_by_path, SortBlocks(BlocksToReplace(common_blocks)), 1,
              [nodes |-> nodes, replaced |-> <<>>]).nodes

\* the node n has the same rewritten text and the same blocks used in both
SameRewriting(first, second, n) ==
  /\ second[n].processed_content = first[n].processed_content
  /\ second[n].common_blocks_used = first[n].common_blocks_used

\* C28: a second run of _replace_common_blocks_in_content with the same
\* registry gives every node the processed_content and the
\* common_blocks_used it has after the first run.
C28_RewritingIdempotent ==
  Rewritten =>
    /\ Len(SecondRun) = Len(nodes)
    /\ \A n \in 1..Len(nodes) : SameRewriting(nodes, SecondRun, n)

\* C28 witness: the first run has replaced two spans or more in a node's
\* content and the node uses two blocks or more
C28_Witness ==
  /\ pc = "blocks_replaced"
  /\ \E e \in 1..Len(nodes_by_path) :
       /\ Len(AppliedSpans(nodes_by_path[e].key)) >= 2
       /\ Len(nodes[nodes_by_path[e].val].common_blocks_used) >= 2
       /\ nodes[nodes_by_path[e].val].processed_content
            # nodes[nodes_by_path[e].val].content

\* the hits are occurrences of the block in the content, each one ends
\* before the next one starts, and there are no more of them than fit
ScanOrdered(content, block, hits) ==
  /\ \A i \in 1..Len(hits) :
       /\ OccursAt(content, block.content, hits[i].start)
       /\ hits[i].end = hits[i].start + Len(block.content)
       /\ i < Len(hits) => hits[i].end <= hits[i + 1].start
  /\ Len(hits) * Len(block.content) <= Len(content)

\* the scan of a node's content for a block ends: the block's content is
\* not empty, so the search start moves on after each hit
ScanEnds(content, block) ==
  /\ Len(block.content) > 0
  /\ ScanOrdered(content, block, FindOccurrences(content, block, 0))

\* C29: for every node and every entry of the registry the occurrence scan
\* ends, because the block's content is not empty and the search start
\* moves past each hit; the hits of one block on one node are in ascending
\* position and do not overlap.
C29_OccurrenceScanTerminates ==
  Extracted =>
    \A e \in 1..Len(nodes_by_path) :
      \A b \in 1..Len(common_blocks) :
        ScanEnds(nodes[nodes_by_path[e].val].content,
                 BlocksToReplace(common_blocks)[b])

\* C29 witness: the scan of a node's content has two hits or more for a block
C29_Witness ==
  /\ pc = "blocks_replaced"
  /\ \E e \in 1..Len(nodes_by_path) :
       \E b \in 1..Len(common_blocks) :
         /\ Len(FindOccurrences(nodes[nodes_by_path[e].val].content,
                                BlocksToReplace(common_blocks)[b], 0)) >= 2
         /\ \E k \in 1..Len(AppliedSpans(nodes_by_path[e].key)) :
              AppliedSpans(nodes_by_path[e].key)[k].block_id = common_blocks[b].key

RECURSIVE SeedTrace(_, _, _)
\* one turn of the outer loop: the seed, the chunks it matched, whether its
\* group was kept, and processed_indices before and after the turn
SeedTurn(chunks, i, st, found, kept) ==
  <<[seed |-> i,
     matched |-> found.similar_chunks,
     promoted |-> Len(kept.chunk_groups) > Len(st.chunk_groups),
     before |-> st.processed_indices,
     after |-> kept.processed_indices]>>
    \o SeedTrace(chunks, i + 1, kept)

\* the turn of seed i, from the chunks the inner loop has found
SeedFound(chunks, i, st, found) ==
  SeedTurn(chunks, i, st, found, KeepGroup(chunks, i, st, found))

\* the turns of the outer loop from chunk i on, one per seed
SeedTrace(chunks, i, st) ==
  IF i > Len(chunks) THEN <<>>
  ELSE IF i \in st.processed_indices THEN SeedTrace(chunks, i + 1, st)
  ELSE SeedFound(chunks, i, st,
         FindSimilar(chunks, i, 1,
           [similar_chunks |-> <<>>,
            urls_in_group |-> {chunks[i].url},
            processed_indices |-> st.processed_indices]))

\* the turns of the seeds of all_chunks
Turns == SeedTrace(all_chunks, 1, [chunk_groups |-> <<>>, processed_indices |-> {}])

\* the chunks matched in a turn
Matched(turn) == {turn.matched[k] : k \in 1..Len(turn.matched)}

\* the chunks matched in turn a are processed after it, are matched in no
\* other turn and are the seed of no later turn
Consumed(turns, a) ==
  /\ Matched(turns[a]) \subseteq turns[a].after
  /\ \A b \in 1..Len(turns) :
       /\ b # a => Matched(turns[b]) \cap Matched(turns[a]) = {}
       /\ b > a => turns[b].seed \notin Matched(turns[a])

\* after a turn the processed chunks are those of before, the chunks matched
\* and, when the group was kept, the seed
SeedReleased(turn) ==
  /\ turn.promoted <=> Len(turn.matched) >= MIN_OCCURRENCES - 1
  /\ turn.after = turn.before \cup Matched(turn)
                    \cup (IF turn.promoted THEN {turn.seed} ELSE {})
  /\ turn.seed \notin turn.before \cup Matched(turn)

\* the kept turns are the chunk groups, and every turn consumes the chunks it
\* matched and releases its seed when its group is not kept
TurnsHold(turns, groups) ==
  /\ Len(SelectSeq(turns, LAMBDA turn : turn.promoted)) = Len(groups)
  /\ \A a \in 1..Len(turns) : Consumed(turns, a) /\ SeedReleased(turns[a])

\* a later turn takes as a member the seed of a turn whose group was not
\* kept, and no turn has a chunk matched in that turn as its seed
FailedSeedTaken(turns) ==
  \E a, b \in 1..Len(turns) :
    /\ a < b
    /\ ~turns[a].promoted
    /\ turns[a].matched # <<>>
    /\ \A c \in 1..Len(turns) : turns[c].seed \notin Matched(turns[a])
    /\ turns[a].seed \in Matched(turns[b])

\* C30: a chunk that matches a seed is marked processed at once, so it is
\* never a later seed and never a member of another group, also when the
\* seed's group has fewer than MIN_OCCURRENCES chunks and is not kept; of the
\* chunks of such a group only the seed stays unprocessed.
C30_MatchedChunkConsumed ==
  (pc = "blocks_extracted" /\ use_ai) => TurnsHold(Turns, chunk_groups)

\* C30 witness: a seed matches a chunk, its group is not kept, the matched
\* chunk is passed over as a seed, and a later seed takes the seed of the
\* failed group as a member
C30_Witness ==
  pc = "blocks_extracted" /\ use_ai /\ FailedSeedTaken(Turns)

====
